---- MODULE Spec2Model ----
(***************************************************************************)
(* A model of the evently REST front end: the selector matcher and the SQL *)
(* predicate generator, the append engine with its registry validation and *)
(* idempotent replay, the batched selector stream, the registry fold, and  *)
(* the notification fan-out.  The relational store is external; its stored *)
(* procedures are modelled from their documented contract.                *)
(***************************************************************************)
EXTENDS Integers, Sequences, FiniteSets, TLC

VARIABLES
  \* selector-matcher.ts / selector-sql: one evaluation of a selector on an event
  mSelector, mEvent, mPc, mMatched, mSqlMatched,
  \* event-source/postgres-selector.ts: one selector stream
  sRows,        \* the rows of the ledger that match the selector, in order
  sLimit,       \* selector.limit (0: none)
  sPc,          \* "idle" | "selecting" (inside selectEvents) | "done"
  sYielded,     \* the rows the event stream has yielded so far
  sTotalLimit,  \* selectEvents: totalLimit
  sAfter,       \* selectEvents: after
  sFetches,     \* number of fetch_selected calls made
  \* the database: the rows of one ledger, in commit order
  ledger,
  \* registry: the result of the last reduceAllEvents, and whether it is current
  rResult, rRead,
  \* registry cache: the promises cachedAllEvents created, and the cached one
  reads, cache,
  \* event-store: the append requests in flight
  task,
  \* registry: the register / unregister request in flight, and how many ran
  reg, regOps,
  \* notify: the ids in the channels map, how many channels were opened, and
  \* what the last call of the Channels interface gave back
  channels, nextChannel, reply,
  \* notify: the channels' filters, the SSE streams, the adapter's listeners,
  \* the notifications whose meta / data are being fetched
  filters, nextSub, stream, listeners, fetching, nCount,
  \* what the adapter delivered and what each stream was pushed, in order
  deliveries, pushed,
  \* registry reads (allEvents, getEvent, entities, eventsForEntity) in flight
  reader,
  \* ledgers: the ledger LRU entry and the forLedgerId calls in flight
  lcache, lcaller,
  \* shutdown: the hooks array, the position of the close callback, the hook
  \* promises not yet settled, what the hooks did, and how far initAll got
  hooks, closeFn, pending, hookLog, initPc,
  \* api: one HTTP request on its way through the auth hooks to its handler
  req,
  \* api: the last HEAD and the last GET of a selector URI
  sel,
  \* selector-utils: the selectors encoded and decoded so far
  codec,
  \* notify: the keys of the channels map (ledger id | channel id), and the
  \* ledger_id column of each notification that arrived
  channelKeys, notified,
  \* ledgers: whether the database holds the ledger, the answer of each
  \* caller's lookup on its way, how far removeLedger got, and whether each
  \* caller's forLedgerId started after removeLedger returned
  ledgerRows, lookups, removal, lstarted,
  \* asyncify: one iterator (its closure variables), the promise of its
  \* provider, the result of every next() in call order, and the messages
  \* pushed while it was listening
  iterator, providerPc, pullResults, pushLog,
  \* ledgers: the number of resetLedger calls that have returned
  resets,
  \* registry: the reads of reduceAllEvents whose promise was rejected
  failedReads,
  \* db/selector-sql: the predicates sent to the database, with the selector
  \* each was generated from
  predicates,
  \* event-source: the calls of all, filter and latestEventId that were answered
  sourceCalls,
  \* api/ndjson-utils: one transform: how far it is, its readableHighWaterMark,
  \* the entries written to it, its buffer and the chunks it pushed
  ndPc, ndHwm, ndWritten, ndBuffer, ndChunks

matchVars == <<mSelector, mEvent, mPc, mMatched, mSqlMatched>>
selectVars == <<sRows, sLimit, sPc, sYielded, sTotalLimit, sAfter, sFetches>>

dbVars == <<ledger>>
foldVars == <<rResult, rRead>>

appendVars == <<reads, cache, task, reg, regOps>>

notifyVars ==
  <<channels, nextChannel, reply, filters, nextSub, stream, listeners, fetching,
    nCount, deliveries, pushed>>

cacheVars == <<reader, lcache, lcaller>>

shutdownVars == <<hooks, closeFn, pending, hookLog, initPc>>

authVars == <<req>>

etagVars == <<sel>>

codecVars == <<codec>>

tenantVars == <<channelKeys, notified>>

removeVars == <<ledgerRows, lookups, removal, lstarted>>

asyncVars == <<iterator, providerPc, pullResults, pushLog>>

resetVars == <<resets>>

\* the variables of the sections that follow asyncify
failVars == <<failedReads>>

sqlVars == <<predicates>>

sourceVars == <<sourceCalls>>

ndjsonVars == <<ndPc, ndHwm, ndWritten, ndBuffer, ndChunks>>

moreVars == <<resetVars, failVars, sqlVars, sourceVars, ndjsonVars>>

restVars ==
  <<shutdownVars, authVars, etagVars, codecVars, tenantVars, removeVars,
    asyncVars, moreVars>>

\* everything but restVars
coreVars ==
  <<matchVars, selectVars, dbVars, foldVars, appendVars, notifyVars, cacheVars>>

vars == <<coreVars, restVars>>

NotShutdown ==
  <<coreVars, authVars, etagVars, codecVars, tenantVars, removeVars,
    asyncVars, moreVars>>
NotAuth ==
  <<coreVars, shutdownVars, etagVars, codecVars, tenantVars, removeVars,
    asyncVars, moreVars>>
NotEtag ==
  <<coreVars, shutdownVars, authVars, codecVars, tenantVars, removeVars,
    asyncVars, moreVars>>
NotCodec ==
  <<coreVars, shutdownVars, authVars, etagVars, tenantVars, removeVars,
    asyncVars, moreVars>>

(***************************************************************************)
(* JSON values.  A document is absent (undefined), null, or the object     *)
(* {"k": v}; v = 0 stands for the empty object {}.                         *)
(***************************************************************************)
Undefined == [t |-> "undefined", k |-> 0]
JsonNull  == [t |-> "null", k |-> 0]
Obj(v)    == [t |-> "obj", k |-> v]

EventNames  == {"a", "b"}
EntityNames == {"x", "y"}
EntityKeys  == {"1", "2"}

\* EntitiesRecord: entity name -> non-empty list of keys; the empty map stands
\* for an absent clause (an empty one never matches and generates no SQL).
EmptyMap == [n \in {} |-> {}]
IsEmpty(m) == DOMAIN m = {}

\* JsonpathFilter {query, vars}; vars = 0 is "no vars", vars = n is {"v": n}.
NoFilter == [query |-> "", vars |-> 0]
Filter(q, v) == [query |-> q, vars |-> v]
HasFilter(f) == f.query # ""

(***************************************************************************)
(* The JSONPath engine (sql-jsonpath-js in process, jsonb_path_exists /    *)
(* @? in the database), on the three query shapes the model uses.          *)
(***************************************************************************)
JsonpathExists(filter, json) ==
  CASE filter.query = "$"               -> json.t # "undefined"
    [] filter.query = "$.k ? (@ == 1)"  -> json.t = "obj" /\ json.k = 1
    [] filter.query = "$.k ? (@ == $v)" -> json.t = "obj" /\ filter.vars # 0
                                           /\ json.k = filter.vars
    [] OTHER                            -> FALSE

(***************************************************************************)
(* notify/selector-matcher.ts: the in-process matcher                      *)
(***************************************************************************)
isFilterSelector(selector) ==
  \/ ~IsEmpty(selector.entities)
  \/ HasFilter(selector.meta)
  \/ ~IsEmpty(selector.events)

createAllMatcher(e) == TRUE

createEntitiesMatcher(searchEntities, e) ==
  \E name \in DOMAIN e.entities :
    /\ name \in DOMAIN searchEntities
    /\ \E key \in e.entities[name] : key \in searchEntities[name]

createJsonpathMatcher(filter, input) ==
  IF filter.query = "$" THEN createAllMatcher(input)
  ELSE JsonpathExists(filter, input)

createMetaMatcher(filter, e) == createJsonpathMatcher(filter, e.meta)

createDataMatcher(dataFilter, e) ==
  IF e.event \in DOMAIN dataFilter
  THEN createJsonpathMatcher(dataFilter[e.event], e.data)
  ELSE FALSE

\* the list `matchers` of createFilterMatcher, in push order
FilterMatchers(selector) ==
  (IF ~IsEmpty(selector.entities) THEN <<"entities">> ELSE <<>>)
  \o (IF HasFilter(selector.meta) THEN <<"meta">> ELSE <<>>)
  \o (IF ~IsEmpty(selector.events) THEN <<"events">> ELSE <<>>)

RunMatcher(kind, selector, e) ==
  CASE kind = "entities" -> createEntitiesMatcher(selector.entities, e)
    [] kind = "meta"     -> createMetaMatcher(selector.meta, e)
    [] kind = "events"   -> createDataMatcher(selector.events, e)

\* for (const matcher of matchers) if (matcher(e)) return true; return false
createFilterMatcher(selector, e) ==
  LET matchers == FilterMatchers(selector)
  IN \E i \in 1..Len(matchers) : RunMatcher(matchers[i], selector, e)

createMatcher(selector, e) ==
  IF isFilterSelector(selector)
  THEN createFilterMatcher(selector, e)
  ELSE createAllMatcher(e)

(***************************************************************************)
(* db/selector-sql: the generated predicate, kept as its syntax tree       *)
(***************************************************************************)
SqlClause(kind, entities, filter, events) ==
  [kind |-> kind, entities |-> entities, filter |-> filter, events |-> events]

generateEntitiesQuery(entities) ==
  SqlClause("entities", entities, NoFilter, EmptyMap)

jsonpathToSql(field, jsonpath) ==
  SqlClause(field, EmptyMap, jsonpath, EmptyMap)

generateEventsQuery(dataFilter) ==
  SqlClause("events", EmptyMap, NoFilter, dataFilter)

\* `(${queries.join("\nAND ")})`
filterSelectorToSql(selector) ==
  [join |-> "AND",
   queries |->
     (IF ~IsEmpty(selector.entities)
        THEN <<generateEntitiesQuery(selector.entities)>> ELSE <<>>)
     \o (IF HasFilter(selector.meta)
        THEN <<jsonpathToSql("meta", selector.meta)>> ELSE <<>>)
     \o (IF ~IsEmpty(selector.events)
        THEN <<generateEventsQuery(selector.events)>> ELSE <<>>)]

SqlLiteral(text) == [join |-> text, queries |-> <<>>]

unknownSelectorToSql(selector) ==
  IF isFilterSelector(selector) THEN filterSelectorToSql(selector)
  ELSE SqlLiteral("")

(***************************************************************************)
(* The database evaluating a generated predicate on a stored row           *)
(***************************************************************************)
\* entities @? '$."name" ? (@=="k1" || @=="k2")' OR ...
EvalEntitiesClause(entities, row) ==
  \E name \in DOMAIN entities :
    /\ name \in DOMAIN row.entities
    /\ \E key \in entities[name] : key \in row.entities[name]

\* (event = 'N' AND data @? q) OR ... OR event = ANY(justEvents)
EvalEventsClause(dataFilter, row) ==
  LET justEvents == {ev \in DOMAIN dataFilter : dataFilter[ev].query = "$"}
  IN \/ \E ev \in DOMAIN dataFilter \ justEvents :
          row.event = ev /\ JsonpathExists(dataFilter[ev], row.data)
     \/ row.event \in justEvents

EvalSqlClause(clause, row) ==
  CASE clause.kind = "entities" -> EvalEntitiesClause(clause.entities, row)
    [] clause.kind = "meta"     -> JsonpathExists(clause.filter, row.meta)
    [] clause.kind = "data"     -> JsonpathExists(clause.filter, row.data)
    [] clause.kind = "events"   -> EvalEventsClause(clause.events, row)

EvalSql(sql, row) ==
  CASE sql.join = "AND"   -> \A i \in 1..Len(sql.queries) :
                                EvalSqlClause(sql.queries[i], row)
    [] sql.join = "true"  -> TRUE
    [] sql.join = "false" -> FALSE
    [] OTHER              -> FALSE

(***************************************************************************)
(* Inputs of the matcher check                                             *)
(***************************************************************************)
EntitiesRecords ==
  UNION {[D -> (SUBSET EntityKeys) \ {{}}] : D \in SUBSET EntityNames}

MatchFilters ==
  {Filter("$", 0), Filter("$.k ? (@ == 1)", 0), Filter("$.k ? (@ == $v)", 2)}

MatchDataFilters ==
  UNION {[D -> MatchFilters] : D \in SUBSET EventNames}

MatchSelectors ==
  {s \in [entities : {m \in EntitiesRecords : Cardinality(DOMAIN m) <= 1},
          meta : MatchFilters \cup {NoFilter},
          events : MatchDataFilters] : isFilterSelector(s)}

MatchJson == {JsonNull, Obj(0), Obj(1), Obj(2)}

MatchEvents ==
  [event : EventNames,
   entities : {m \in EntitiesRecords : \A n \in DOMAIN m : Cardinality(m[n]) = 1},
   meta : MatchJson,
   data : MatchJson]

NoSelector == [entities |-> EmptyMap, meta |-> NoFilter, events |-> EmptyMap]
NoEvent == [event |-> "", entities |-> EmptyMap, meta |-> Undefined, data |-> Undefined]

MatchStart ==
  /\ mSelector = NoSelector
  /\ mEvent = NoEvent
  /\ mPc = "idle"
  /\ mMatched = FALSE
  /\ mSqlMatched = FALSE

\* the channel compiles the subscription's matcher and runs it on an event;
\* the database runs the predicate generated from the same selector on the row
EvaluateSelector ==
  /\ mPc = "idle"
  /\ \E s \in MatchSelectors, e \in MatchEvents :
    /\ mSelector' = s
    /\ mEvent' = e
    /\ mPc' = "evaluated"
    /\ mMatched' = createMatcher(s, e)
    /\ mSqlMatched' = EvalSql(filterSelectorToSql(s), e)

    /\ UNCHANGED <<selectVars, dbVars, foldVars, appendVars, notifyVars, cacheVars,
                   restVars>>

MatchNext == EvaluateSelector

(***************************************************************************)
(* event-source/postgres-selector.ts: the batched selector stream         *)
(***************************************************************************)
EVENT_BATCH_SIZE == 100

\* Number.POSITIVE_INFINITY, which "will never decrease"
Infinity == -1

MaxEvents == 250
SelLimits == {0, 1, 100, 150}

Min(a, b) == IF a < b THEN a ELSE b
Last(seq) == seq[Len(seq)]
Take(seq, n) == SubSeq(seq, 1, Min(n, Len(seq)))

\* the matching rows of a ledger holding n of them, in the ledger's order;
\* in a tied ledger two rows share each timestamp and differ in checksum
LedgerRows(n, tied) ==
  [i \in 1..n |-> IF tied THEN [timestamp |-> i \div 2, checksum |-> i % 2]
                  ELSE [timestamp |-> i, checksum |-> 0]]

RowsAfterTs(rows, ts) ==
  SelectSeq(rows, LAMBDA r : r.timestamp > ts)

\* evently.run_selector: the rows after (afterTs, afterChk) that match, at most
\* `limit` of them when limit > 0 and at most one batch (the header row is
\* taken off by tryExecuteSelector)
run_selector(rows, afterTs, afterChk, limit, batchSize) ==
  LET later == SelectSeq(rows, LAMBDA r :
                 \/ r.timestamp > afterTs
                 \/ r.timestamp = afterTs /\ r.checksum > afterChk)
      bounded == IF limit > 0 THEN Take(later, limit) ELSE later
  IN Take(bounded, batchSize)

\* a continuation that starts at the timestamp it is given
fetch_selected_FromAfter(rows, after, limit) ==
  Take(SelectSeq(rows, LAMBDA r : r.timestamp >= after), limit)

\* evently.fetch_selected: the first `limit` matching rows later than `after`
fetch_selected(rows, after, limit) == Take(RowsAfterTs(rows, after), limit)

fetchRows(rows, after, totalLimit) ==
  LET limit == IF totalLimit = Infinity THEN EVENT_BATCH_SIZE
               ELSE Min(totalLimit, EVENT_BATCH_SIZE)
  IN fetch_selected(rows, after, limit)

SelectStart ==
  /\ sRows = <<>>
  /\ sLimit = 0
  /\ sPc = "idle"
  /\ sYielded = <<>>
  /\ sTotalLimit = 0
  /\ sAfter = 0
  /\ sFetches = 0

\* executeSelector + tryExecuteSelector + continueSelector, up to the first
\* batch; selectEvents is entered when the first batch is full
executeSelector ==
  /\ sPc = "idle"
  /\ \E n \in 0..MaxEvents, limit \in SelLimits, tied \in BOOLEAN :
       LET rows == LedgerRows(n, tied)
           firstBatch == run_selector(rows, 0, 0, limit, EVENT_BATCH_SIZE)
           allEventsPresent == Len(firstBatch) < EVENT_BATCH_SIZE
       IN /\ sRows' = rows
          /\ sLimit' = limit
          /\ sYielded' = firstBatch
          /\ sFetches' = 0
          /\ IF Len(firstBatch) = 0 \/ allEventsPresent
             THEN /\ sPc' = "done"
                  /\ UNCHANGED <<sTotalLimit, sAfter>>
             ELSE /\ sPc' = "selecting"
                  /\ sTotalLimit' = (IF limit = 0 THEN Infinity ELSE limit)
                  /\ sAfter' = Last(firstBatch).timestamp
  /\ UNCHANGED <<matchVars, restVars, dbVars, foldVars, appendVars, notifyVars, cacheVars>>

\* one turn of the while loop of selectEvents
selectEvents ==
  /\ sPc = "selecting"
  /\ IF sTotalLimit = Infinity \/ sTotalLimit > 0
     THEN LET rows == fetchRows(sRows, sAfter, sTotalLimit)
          IN /\ sFetches' = sFetches + 1
             /\ sTotalLimit' = (IF sTotalLimit = Infinity THEN Infinity
                                ELSE sTotalLimit - Len(rows))
             /\ IF Len(rows) > 0
                THEN /\ sAfter' = Last(rows).timestamp
                     /\ sYielded' = sYielded \o rows
                     /\ sPc' = "selecting"
                ELSE /\ sPc' = "done"
                     /\ UNCHANGED <<sAfter, sYielded>>
     ELSE /\ sPc' = "done"
          /\ UNCHANGED <<sAfter, sYielded, sTotalLimit, sFetches>>
  /\ UNCHANGED <<sRows, sLimit, matchVars, restVars, dbVars, foldVars, appendVars, notifyVars, cacheVars>>

SelectNext == executeSelector \/ selectEvents

(***************************************************************************)
(* registry (the second half of notify/selector-matcher.ts): the registry  *)
(* of a ledger is the fold of its marker events                            *)
(***************************************************************************)
LEDGER == "LEDGER"
LedgerId == "00000001"
EVENT_REGISTERED == "EVENT_REGISTERED"
EVENT_UNREGISTERED == "EVENT_UNREGISTERED"

\* the row append_event stores; entities maps each entity name to its keys
Row(event, entities, meta, data, key) ==
  [event |-> event, entities |-> entities, meta |-> meta, data |-> data,
   key |-> key]

\* data of a marker: {event, entities} (registered) or {event} (unregistered)
MarkerData(event, entities) ==
  [t |-> "obj", k |-> 0, event |-> event, entities |-> entities]

RegisteredMarker(event, entities) ==
  Row(EVENT_REGISTERED, (LEDGER :> {LedgerId}), Obj(0),
      MarkerData(event, entities), "cuid-registry")

UnregisteredMarker(event) ==
  Row(EVENT_UNREGISTERED, (LEDGER :> {LedgerId}), Obj(0),
      MarkerData(event, <<>>), "cuid-registry")

\* the selector reduceAllEvents runs
RegistrySelector ==
  [entities |-> (LEDGER :> {LedgerId}),
   meta |-> NoFilter,
   events |-> (EVENT_REGISTERED :> Filter("$", 0))
              @@ (EVENT_UNREGISTERED :> Filter("$", 0))]

\* runFilter on a ledger whose matching rows fit the first batch: the stream
\* is the rows the generated predicate selects, in ledger order
runFilter(rows, selector) ==
  SelectSeq(rows, LAMBDA row : EvalSql(filterSelectorToSql(selector), row))

\* Map.set: a present key keeps its place, a new one goes last
MapSet(map, event, entities) ==
  IF \E i \in 1..Len(map) : map[i].event = event
  THEN [i \in 1..Len(map) |->
          IF map[i].event = event
          THEN [event |-> event, entities |-> entities] ELSE map[i]]
  ELSE Append(map, [event |-> event, entities |-> entities])

\* a fold in which an unregistration leaves the entry in place
MapDelete_KeepsEntry(map, event) == map

MapDelete(map, event) == SelectSeq(map, LAMBDA et : et.event # event)

\* the for-await loop of reduceAllEvents over the stream
RECURSIVE reduceStream(_, _)
reduceStream(eventStream, eventEntitiesMap) ==
  IF Len(eventStream) = 0 THEN eventEntitiesMap
  ELSE LET row == Head(eventStream)
           next == CASE row.event = EVENT_REGISTERED ->
                          MapSet(eventEntitiesMap, row.data.event, row.data.entities)
                     [] row.event = EVENT_UNREGISTERED ->
                          MapDelete(eventEntitiesMap, row.data.event)
                     [] OTHER -> eventEntitiesMap
       IN reduceStream(Tail(eventStream), next)

\* EventType[]: the list [{event, entities}]
reduceAllEvents(rows) == reduceStream(runFilter(rows, RegistrySelector), <<>>)

(***************************************************************************)
(* The registry read over arbitrary ledgers                                *)
(***************************************************************************)
MaxFoldRows == 4
EntityLists == {<<"x">>, <<"y">>, <<"x", "y">>}

FoldRows ==
  {RegisteredMarker(ev, ents) : ev \in EventNames, ents \in EntityLists}
  \cup {UnregisteredMarker(ev) : ev \in EventNames}
  \cup {Row("a", ("x" :> {"1"}), Obj(1), Obj(1), "k1")}

DbStart == ledger = <<>>

FoldStart ==
  /\ rResult = <<>>
  /\ rRead = FALSE

\* some process commits a row (a marker or a user event) to the ledger
CommitRow ==
  /\ Len(ledger) < MaxFoldRows
  /\ \E row \in FoldRows : ledger' = Append(ledger, row)
  /\ rRead' = FALSE
  /\ UNCHANGED <<rResult, matchVars, restVars, selectVars, appendVars, notifyVars, cacheVars>>

\* allEvents on a cold cache: reduceAllEvents reads the ledger
ReadRegistry ==
  /\ rResult' = reduceAllEvents(ledger)
  /\ rRead' = TRUE
  /\ UNCHANGED <<ledger, matchVars, restVars, selectVars, appendVars, notifyVars, cacheVars>>

FoldNext == CommitRow \/ ReadRegistry

(***************************************************************************)
(* event-store/postgres-store.ts: the append engine, with the registry     *)
(* cache it validates against and the register / unregister requests that  *)
(* run beside it.  An event id is the position of its row in the ledger;   *)
(* after = 0 is "no after".                                                *)
(***************************************************************************)
Tasks == {1, 2}
NoKey == "undefined"
NO_IDEMPOTENCY_KEY == "NO_IDEMPOTENCY_KEY"

\* createId(): a fresh cuid per caller
createId(t) == IF t = 1 THEN "cuid-1" ELSE "cuid-2"

SUCCESS == "SUCCESS"
RACE == "RACE CONDITION"
ERROR == "ERROR"
UnprocessableEntity == "422"

ListAsSet(list) == {list[i] : i \in 1..Len(list)}

\* a validation that looks up the event name and not its entities
validateEvent_NameOnly(registry, eventIn) ==
  \E et \in ListAsSet(registry) : et.event = eventIn.event

\* validateEvent: TRUE when it returns, FALSE when it throws 422
validateEvent(registry, eventIn) ==
  LET defs == {et \in ListAsSet(registry) : et.event = eventIn.event}
  IN /\ defs # {}
     /\ \A et \in defs :
          \A entity \in DOMAIN eventIn.entities : entity \in ListAsSet(et.entities)

\* appendFact passes the literal "false", appendWithSelector the generated SQL
SelectorSql(input) ==
  IF input.atomic THEN unknownSelectorToSql(input.selector)
  ELSE SqlLiteral("false")

\* the values appendEvent hands to append_event: meta = null, data = null
\* when absent, appendKey = idempotencyKey || createId()
AppendValues(t, input) ==
  [previous |-> input.after,
   event |-> input.event,
   entities |-> input.entities,
   meta |-> IF input.meta = Undefined THEN JsonNull ELSE input.meta,
   data |-> IF input.data = Undefined THEN JsonNull ELSE input.data,
   appendKey |-> IF input.idempotencyKey # NoKey
                 THEN input.idempotencyKey ELSE createId(t),
   selector |-> SelectorSql(input)]

\* evently.append_event: the errors it can raise for these values on these
\* rows; it inserts when there is none
AppendEventErrors(rows, values) ==
  {sig \in {"AFTER not found", "RACE CONDITION", "_append_key_key"} :
     CASE sig = "AFTER not found" -> values.previous > Len(rows)
       [] sig = "RACE CONDITION" ->
            /\ values.previous <= Len(rows)
            /\ \E j \in (values.previous + 1)..Len(rows) :
                 EvalSql(values.selector, rows[j])
       [] sig = "_append_key_key" ->
            \E j \in 1..Len(rows) : rows[j].key = values.appendKey}

append_event(rows, values) ==
  Append(rows, Row(values.event, values.entities, values.meta, values.data,
                   values.appendKey))

\* evently.find_with_append_key: the position of the row stored under the key
find_with_append_key(rows, key) ==
  IF \E j \in 1..Len(rows) : rows[j].key = key
  THEN CHOOSE j \in 1..Len(rows) : rows[j].key = key
  ELSE 0

\* the compared fields of an append input and of a stored row
Content(input) ==
  [event |-> input.event, entities |-> input.entities,
   meta |-> input.meta, data |-> input.data]
RowContent(row) ==
  [event |-> row.event, entities |-> row.entities,
   meta |-> row.meta, data |-> row.data]

\* lodash isEqual on the modelled documents
isEqual(a, b) == a = b

\* a lookup that answers a mismatch with the append's own result, not 422
maybeIdempotent_KeepsResult(rows, newEvent, appendResult) ==
  LET idempotencyKey == IF newEvent.idempotencyKey = NoKey
                        THEN NO_IDEMPOTENCY_KEY ELSE newEvent.idempotencyKey
      found == find_with_append_key(rows, idempotencyKey)
  IN IF found # 0 /\ RowContent(rows[found]) = Content(newEvent)
     THEN [status |-> SUCCESS, eventId |-> found]
     ELSE [status |-> appendResult, eventId |-> 0]

\* maybeIdempotent: the key defaults to the sentinel, the input's fields are
\* compared as the client sent them
maybeIdempotent(rows, newEvent, appendResult) ==
  LET idempotencyKey == IF newEvent.idempotencyKey = NoKey
                        THEN NO_IDEMPOTENCY_KEY ELSE newEvent.idempotencyKey
      found == find_with_append_key(rows, idempotencyKey)
  IN IF found # 0
     THEN IF /\ newEvent.event = rows[found].event
             /\ isEqual(rows[found].entities, newEvent.entities)
             /\ isEqual(rows[found].meta, newEvent.meta)
             /\ isEqual(rows[found].data, newEvent.data)
          THEN [status |-> SUCCESS, eventId |-> found]
          ELSE [status |-> UnprocessableEntity, eventId |-> 0]
     ELSE [status |-> appendResult, eventId |-> 0]

\* the texts of the model; the first holds the placeholder /SELECTOR
RaceText == "Race Condition! Entity has newer events. Please GET /SELECTOR for the most recent events."
KeyReusedText == "idempotencyKey reused for a different event."
AfterNotFoundText == "'after' value not found in ledger."
NoText == ""

\* the response of POST /append: status code and body
NoBody == [type |-> "", message |-> NoText, current |-> <<>>]
NoHttp == [status |-> 0, body |-> NoBody]

NoInput ==
  [event |-> "", entities |-> EmptyMap, meta |-> Undefined, data |-> Undefined,
   idempotencyKey |-> NoKey, atomic |-> FALSE, selector |-> NoSelector,
   after |-> 0]

IdleTask ==
  [pc |-> "idle", input |-> NoInput, p |-> 0, seen |-> <<>>, calls |-> 0,
   signal |-> "", stored |-> 0, added |-> FALSE, validAtCommit |-> FALSE,
   status |-> "", eventId |-> 0, http |-> NoHttp]

\* the continuation of appendEvent once getEvent's promise has a value
Validated(tk, registry) ==
  IF validateEvent(registry, tk.input)
  THEN [tk EXCEPT !.pc = "append", !.seen = registry]
  ELSE [tk EXCEPT !.pc = "done", !.seen = registry,
                  !.status = UnprocessableEntity]

\* the promise reduceAllEvents returns: whether the database has run the
\* query, on how many rows, whether the promise has resolved, and whether
\* the cache entry holding it has not been deleted or expired since
NewRead ==
  [queried |-> FALSE, at |-> 0, resolved |-> FALSE, value |-> <<>>, live |-> TRUE]

\* appendFact / appendWithSelector up to the first await: cachedAllEvents
\* returns the cached promise or starts a read and caches its promise
appendEvent(t, inputs) ==
  /\ task[t].pc = "idle"
  /\ \E input \in inputs :
       LET tk == [task[t] EXCEPT !.input = input]
       IN IF cache = 0
          THEN /\ reads' = Append(reads, NewRead)
               /\ cache' = Len(reads) + 1
               /\ task' = [task EXCEPT ![t] =
                             [tk EXCEPT !.pc = "await", !.p = Len(reads) + 1]]
          ELSE /\ UNCHANGED <<reads, cache>>
               /\ task' = [task EXCEPT ![t] =
                             IF reads[cache].resolved
                             THEN Validated([tk EXCEPT !.p = cache],
                                            reads[cache].value)
                             ELSE [tk EXCEPT !.pc = "await", !.p = cache]]
  /\ UNCHANGED <<ledger, reg, regOps, matchVars, restVars, selectVars, foldVars, notifyVars, cacheVars>>

\* the database runs the query of a reduceAllEvents whose answer is still
\* on its way
QueryRead ==
  \E p \in 1..Len(reads) :
    /\ ~reads[p].queried
    /\ reads' = [reads EXCEPT ![p] =
                   [@ EXCEPT !.queried = TRUE, !.at = Len(ledger),
                             !.value = reduceAllEvents(ledger)]]
    /\ UNCHANGED <<ledger, cache, task, reg, regOps, reader, lcache, lcaller,
                   matchVars, restVars, selectVars, foldVars, notifyVars>>

\* the read of reduceAllEvents completes (the query runs now unless it ran
\* before): every append and every registry read awaiting it goes on
ResolveRead ==
  \E p \in 1..Len(reads) :
    /\ ~reads[p].resolved
    /\ LET registry == IF reads[p].queried THEN reads[p].value
                       ELSE reduceAllEvents(ledger)
       IN /\ reads' = [reads EXCEPT ![p] =
                         [@ EXCEPT !.queried = TRUE, !.resolved = TRUE,
                                   !.at = IF reads[p].queried THEN @ ELSE Len(ledger),
                                   !.value = registry]]
          /\ task' = [t \in Tasks |->
                        IF task[t].pc = "await" /\ task[t].p = p
                        THEN Validated(task[t], registry) ELSE task[t]]
          /\ reader' = [r \in DOMAIN reader |->
                          IF reader[r].pc = "await" /\ reader[r].p = p
                          THEN [reader[r] EXCEPT !.pc = "done", !.value = registry,
                                                 !.at = reads'[p].at]
                          ELSE reader[r]]
    /\ UNCHANGED <<ledger, cache, reg, regOps, lcache, lcaller,
                   matchVars, restVars, selectVars, foldVars, notifyVars>>

\* the entry `cache` holds leaves the LRU map
Dropped(rs) ==
  [p \in 1..Len(rs) |-> IF p = cache THEN [rs[p] EXCEPT !.live = FALSE] ELSE rs[p]]

\* the LRU entry times out (ttl 10 s) or is evicted
ExpireCache ==
  /\ cache # 0
  /\ cache' = 0
  /\ reads' = Dropped(reads)
  /\ UNCHANGED <<ledger, task, reg, regOps, matchVars, restVars, selectVars, foldVars, notifyVars, cacheVars>>

\* tryAppendResult: the append_event call and the catch clauses
tryAppendResult(t) ==
  /\ task[t].pc = "append"
  /\ LET values == AppendValues(t, task[t].input)
         errors == AppendEventErrors(ledger, values)
         tk == [task[t] EXCEPT !.calls = @ + 1,
                               !.stored = find_with_append_key(ledger, values.appendKey)]
     IN IF errors = {}
        THEN /\ ledger' = append_event(ledger, values)
             /\ task' = [task EXCEPT ![t] =
                  [tk EXCEPT !.pc = "done", !.signal = "inserted",
                             !.added = TRUE,
                             !.validAtCommit =
                                validateEvent(reduceAllEvents(ledger), tk.input),
                             !.status = SUCCESS, !.eventId = Len(ledger) + 1]]
        ELSE /\ UNCHANGED ledger
             /\ \E sig \in errors :
                  task' = [task EXCEPT ![t] =
                    IF sig = "AFTER not found"
                    THEN [tk EXCEPT !.pc = "done", !.signal = sig, !.status = ERROR]
                    ELSE [tk EXCEPT !.pc = "lookup", !.signal = sig]]
  /\ UNCHANGED <<reads, cache, reg, regOps, matchVars, restVars, selectVars, foldVars, notifyVars, cacheVars>>

\* maybeIdempotent: the lookup, run after a race or a key conflict
IdempotentLookup(t) ==
  /\ task[t].pc = "lookup"
  /\ LET appendResult == IF task[t].signal = "RACE CONDITION" THEN RACE ELSE ERROR
         result == maybeIdempotent(ledger, task[t].input, appendResult)
     IN task' = [task EXCEPT ![t] =
                   [@ EXCEPT !.pc = "done", !.status = result.status,
                             !.eventId = result.eventId]]
  /\ UNCHANGED <<ledger, reads, cache, reg, regOps, matchVars, restVars, selectVars, foldVars, notifyVars, cacheVars>>

\* the raceResult of tryAppendResult: {status, error}; it has no message
raceResult == [status |-> RACE, error |-> RaceText, message |-> NoText]

\* the AppendResult a finished append hands to the endpoint: maybeIdempotent
\* passes the result it was given when the key stores nothing
AppendResultOf(tk) ==
  CASE tk.status = RACE -> raceResult
    [] tk.status = ERROR ->
         [status |-> ERROR, error |-> NoText,
          message |-> IF tk.signal = "AFTER not found" THEN AfterNotFoundText
                      ELSE KeyReusedText]
    [] OTHER -> [status |-> tk.status, error |-> NoText, message |-> NoText]

\* message.includes("/SELECTOR")
IncludesSelector(message) == message = RaceText

\* toSelectorUri: the fetch path of the encoded selector
toSelectorUri(selector) == <<"/selectors/", selector, ".ndjson">>

\* the selector initHandlePostAppend passes: the atomic append's selector,
\* {entities} of the event for a factual one
ReplySelector(input) ==
  IF input.atomic THEN input.selector
  ELSE [entities |-> input.entities, meta |-> NoFilter, events |-> EmptyMap]

\* replyForResult: const {status, ok, message = ""} = result, then the
\* switch on status
replyForResult(selector, result) ==
  CASE result.status = SUCCESS ->
         [status |-> 201,
          body |-> [type |-> "json", message |-> NoText, current |-> <<>>]]
    [] result.status = RACE ->
         [status |-> 409,
          body |-> IF IncludesSelector(result.message)
                   THEN [type |-> "json", message |-> result.message,
                         current |-> toSelectorUri(selector)]
                   ELSE NoBody]
    [] OTHER ->
         [status |-> 400,
          body |-> [type |-> "text", message |-> result.message, current |-> <<>>]]

\* initHandlePostAppend after its await: an AppendResult is answered with
\* replyForResult, a thrown 422 by the framework
handlePostAppend(t) ==
  /\ task[t].pc = "done"
  /\ task' = [task EXCEPT ![t] =
       [@ EXCEPT !.pc = "replied",
                 !.http = IF task[t].status = UnprocessableEntity
                          THEN [status |-> 422,
                                body |-> [type |-> "json", message |-> NoText,
                                          current |-> <<>>]]
                          ELSE replyForResult(ReplySelector(task[t].input),
                                              AppendResultOf(task[t]))]]
  /\ UNCHANGED <<ledger, reads, cache, reg, regOps, matchVars, restVars, selectVars, foldVars, notifyVars, cacheVars>>

(***************************************************************************)
(* registerEventType / unregisterEventType (deleteEvent)                   *)
(***************************************************************************)
MaxRegOps == 2

\* no call in flight; result is how the last call ended: "done" after its
\* marker and cache.delete, "same" for the ignored re-registration,
\* "Forbidden" and "NotFound" for the two throws
IdleReg == [pc |-> "idle", op |-> "", event |-> "", entities |-> <<>>, result |-> ""]

Returned(result) == [IdleReg EXCEPT !.result = result]

\* events.find(et => et.event === event && entities.length ===
\* et.entities.length && et.entities.every(entity => entities.includes(entity)))
existingEvent(events, event, entities) ==
  \E i \in 1..Len(events) :
    /\ events[i].event = event
    /\ Len(entities) = Len(events[i].entities)
    /\ \A entity \in ListAsSet(events[i].entities) : entity \in ListAsSet(entities)

\* registerEventType without its check of the reserved entity name
forbidden_Never(entities) == FALSE

\* entities.includes(LEDGER)
forbidden(entities) == LEDGER \in ListAsSet(entities)

\* registerEventType up to its append: the uncached read and the comparison
registerEventType(event, entities) ==
  /\ reg.pc = "idle"
  /\ regOps < MaxRegOps
  /\ regOps' = regOps + 1
  /\ LET events == reduceAllEvents(ledger)
     IN reg' = IF forbidden(entities) THEN Returned("Forbidden")
               ELSE IF existingEvent(events, event, entities) THEN Returned("same")
               ELSE [pc |-> "append", op |-> EVENT_REGISTERED,
                     event |-> event, entities |-> entities, result |-> ""]
  /\ UNCHANGED <<ledger, reads, cache, task, matchVars, restVars, selectVars, foldVars, notifyVars, cacheVars>>

\* unregisterEventType up to its append; NotFound when not registered
unregisterEventType(event) ==
  /\ reg.pc = "idle"
  /\ regOps < MaxRegOps
  /\ regOps' = regOps + 1
  /\ LET events == reduceAllEvents(ledger)
         registeredEvent == \E i \in 1..Len(events) : events[i].event = event
     IN reg' = IF registeredEvent
               THEN [pc |-> "append", op |-> EVENT_UNREGISTERED,
                     event |-> event, entities |-> <<>>, result |-> ""]
               ELSE Returned("NotFound")
  /\ UNCHANGED <<ledger, reads, cache, task, matchVars, restVars, selectVars, foldVars, notifyVars, cacheVars>>

\* the marker's append_event call commits
AppendMarker ==
  /\ reg.pc = "append"
  /\ ledger' = Append(ledger,
                 IF reg.op = EVENT_REGISTERED
                 THEN RegisteredMarker(reg.event, reg.entities)
                 ELSE UnregisteredMarker(reg.event))
  /\ reg' = [reg EXCEPT !.pc = "invalidate"]
  /\ UNCHANGED <<reads, cache, task, regOps, matchVars, restVars, selectVars, foldVars, notifyVars, cacheVars>>

\* a return after the append that leaves the cache entry in place
InvalidateCache_Keeps ==
  /\ reg.pc = "invalidate"
  /\ reg' = Returned("done")
  /\ UNCHANGED <<ledger, reads, cache, task, regOps, matchVars, restVars, selectVars, foldVars, notifyVars, cacheVars>>

\* cache.delete(id), after the await of the append
InvalidateCache ==
  /\ reg.pc = "invalidate"
  /\ cache' = 0
  /\ reads' = Dropped(reads)
  /\ reg' = Returned("done")
  /\ UNCHANGED <<ledger, task, regOps, matchVars, restVars, selectVars, foldVars, notifyVars, cacheVars>>

(***************************************************************************)
(* Appends on a ledger whose registry is settled                           *)
(***************************************************************************)
MaxAfter == 3

AppendSelector ==
  [entities |-> ("x" :> {"1"}), meta |-> NoFilter, events |-> EmptyMap]

AppendContents ==
  {[event |-> "a", entities |-> ("x" :> {"1"}), meta |-> Undefined, data |-> Undefined],
   [event |-> "a", entities |-> ("x" :> {"1"}), meta |-> Obj(1), data |-> Obj(1)],
   [event |-> "a", entities |-> ("x" :> {"1"}), meta |-> Obj(1), data |-> Obj(2)],
   [event |-> "b", entities |-> ("x" :> {"1"}), meta |-> Obj(1), data |-> Obj(1)]}

AppendInput(c, key, atomic, after) ==
  [event |-> c.event, entities |-> c.entities, meta |-> c.meta, data |-> c.data,
   idempotencyKey |-> key, atomic |-> atomic,
   selector |-> IF atomic THEN AppendSelector ELSE NoSelector,
   after |-> after]

AppendInputs ==
  {AppendInput(c, key, FALSE, 0) :
     c \in AppendContents, key \in {NoKey, "k1", NO_IDEMPOTENCY_KEY}}
  \cup {AppendInput(c, key, TRUE, after) :
     c \in AppendContents, key \in {NoKey, "k1", NO_IDEMPOTENCY_KEY},
     after \in 0..MaxAfter}

\* a ledger on which a[x] and b[x] were registered
RegisteredLedger ==
  <<RegisteredMarker("a", <<"x">>), RegisteredMarker("b", <<"x">>)>>

AppendStart ==
  /\ reads = <<>>
  /\ cache = 0
  /\ task = [t \in Tasks |-> IdleTask]
  /\ reg = IdleReg
  /\ regOps = 0

AppendNext ==
  \/ \E t \in Tasks : appendEvent(t, AppendInputs)
  \/ ResolveRead
  \/ \E t \in Tasks : tryAppendResult(t)
  \/ \E t \in Tasks : IdempotentLookup(t)

\* POST /append: the appends with their responses
PostAppendNext ==
  \/ AppendNext
  \/ \E t \in Tasks : handlePostAppend(t)

(***************************************************************************)
(* Appends beside register / unregister requests, on a fresh ledger        *)
(***************************************************************************)
RegistryContents ==
  {[event |-> "a", entities |-> ("x" :> {"1"}), meta |-> Obj(1), data |-> Obj(1)],
   [event |-> "a", entities |-> ("x" :> {"1"}) @@ ("y" :> {"1"}),
    meta |-> Obj(1), data |-> Obj(1)],
   [event |-> "b", entities |-> ("x" :> {"1"}), meta |-> Obj(1), data |-> Obj(1)]}

RegistryInputs ==
  {AppendInput(c, key, atomic, 0) :
     c \in RegistryContents, key \in {NoKey, "k1"}, atomic \in BOOLEAN}

RegistryNext ==
  \/ \E t \in Tasks : appendEvent(t, RegistryInputs)
  \/ ResolveRead
  \/ ExpireCache
  \/ \E t \in Tasks : tryAppendResult(t)
  \/ \E t \in Tasks : IdempotentLookup(t)
  \/ \E entities \in {<<"x">>, <<"x", "y">>} : registerEventType("a", entities)
  \/ unregisterEventType("a")
  \/ AppendMarker
  \/ InvalidateCache

(***************************************************************************)
(* The two caches.  Registry reads (allEvents, getEvent, entities,         *)
(* eventsForEntity) all await cachedAllEvents, whose LRU entry is the      *)
(* promise of reduceAllEvents; cachedLedgerForId keeps the resolved ledger. *)
(***************************************************************************)
Readers == {1, 2}
Callers == {1, 2}

\* the entities lists a caller of registerEventType passes
EntityLists2 ==
  {<<"x">>, <<"x", "y">>, <<"y", "x">>, <<"x", "x">>}

\* the number of ledger rows written by register / unregister calls that
\* have returned: the marker of a call still before its cache.delete is the
\* last row
ReturnedRows == IF reg.pc = "invalidate" THEN Len(ledger) - 1 ELSE Len(ledger)

IdleReader == [pc |-> "idle", p |-> 0, value |-> <<>>, at |-> 0, after |-> 0]

CacheStart ==
  /\ reader = [r \in Readers |-> IdleReader]
  /\ lcache = FALSE
  /\ lcaller = [c \in Callers |-> "idle"]

\* a registry read up to its await: cachedAllEvents takes the entry or, on a
\* miss, starts reduceAllEvents and stores its promise
cachedAllEvents(r) ==
  /\ reader[r].pc = "idle"
  /\ LET miss == cache = 0
         p == IF miss THEN Len(reads) + 1 ELSE cache
     IN /\ reads' = IF miss THEN Append(reads, NewRead) ELSE reads
        /\ cache' = p
        /\ reader' = [reader EXCEPT ![r] =
                        IF ~miss /\ reads[p].resolved
                        THEN [pc |-> "done", p |-> p, value |-> reads[p].value,
                              at |-> reads[p].at, after |-> ReturnedRows]
                        ELSE [pc |-> "await", p |-> p, value |-> <<>>, at |-> 0,
                              after |-> ReturnedRows]]
  /\ UNCHANGED <<ledger, task, reg, regOps, lcache, lcaller,
                 matchVars, restVars, selectVars, foldVars, notifyVars>>

\* cachedLedgerForId up to its await: a hit returns, a miss sends the lookup
cachedLedgerForId(c) ==
  /\ lcaller[c] # "lookup"
  /\ lcaller' = [lcaller EXCEPT ![c] = IF lcache THEN "hit" ELSE "lookup"]
  /\ UNCHANGED <<ledger, appendVars, reader, lcache,
                 matchVars, restVars, selectVars, foldVars, notifyVars>>

\* ledgerForId answers: the ledger found is cached and returned
ledgerForId(c) ==
  /\ lcaller[c] = "lookup"
  /\ lcache' = TRUE
  /\ lcaller' = [lcaller EXCEPT ![c] = "miss"]
  /\ UNCHANGED <<ledger, appendVars, reader,
                 matchVars, restVars, selectVars, foldVars, notifyVars>>

\* cache.delete(ledgerId), and the entry's expiry (ttl 5 s)
clearCacheForLedger ==
  /\ lcache
  /\ lcache' = FALSE
  /\ UNCHANGED <<ledger, appendVars, reader, lcaller,
                 matchVars, restVars, selectVars, foldVars, notifyVars>>

CacheNext ==
  \/ \E r \in Readers : cachedAllEvents(r)
  \/ QueryRead
  \/ ResolveRead
  \/ ExpireCache
  \/ \E entities \in EntityLists2 : registerEventType("a", entities)
  \/ unregisterEventType("a")
  \/ AppendMarker
  \/ InvalidateCache
  \/ \E c \in Callers : cachedLedgerForId(c)
  \/ \E c \in Callers : ledgerForId(c)
  \/ clearCacheForLedger

(***************************************************************************)
(* Appends that name the reserved entity, beside registrations that list   *)
(* it                                                                      *)
(***************************************************************************)
ReservedContents ==
  {[event |-> "a", entities |-> ("x" :> {"1"}), meta |-> Obj(1), data |-> Obj(1)],
   [event |-> "a", entities |-> (LEDGER :> {LedgerId}), meta |-> Obj(1), data |-> Obj(1)],
   [event |-> "a", entities |-> ("x" :> {"1"}) @@ (LEDGER :> {LedgerId}),
    meta |-> Obj(1), data |-> Obj(1)],
   [event |-> EVENT_REGISTERED, entities |-> (LEDGER :> {LedgerId}),
    meta |-> Obj(1), data |-> Obj(1)]}

ReservedInputs == {AppendInput(c, NoKey, FALSE, 0) : c \in ReservedContents}

ReservedLists == {<<"x">>, <<LEDGER>>, <<"x", LEDGER>>, <<LEDGER, "x">>}

ReservedNext ==
  \/ \E t \in Tasks : appendEvent(t, ReservedInputs)
  \/ ResolveRead
  \/ ExpireCache
  \/ \E t \in Tasks : tryAppendResult(t)
  \/ \E event \in {"a", EVENT_REGISTERED}, entities \in ReservedLists :
       registerEventType(event, entities)
  \/ AppendMarker
  \/ InvalidateCache

(***************************************************************************)
(* notify: the channels map, channel.ts, postgres-listener.ts and          *)
(* asyncify.ts.  Channels with their subscription filters, the SSE streams *)
(* opened on them, and the adapter that hears ALL_EVENTS.  The event id of *)
(* a notification is its arrival number.                                   *)
(***************************************************************************)
Streams == {1, 2}
MaxSubs == 2
MaxNotifications == 2
SSE_RETRY == 10000

(***************************************************************************)
(* Selectors as the caller passes them: a mapping is the list of its       *)
(* [k, v] pairs in insertion order, and an optional member says whether it *)
(* is there.  Keys are distinct.                                           *)
(***************************************************************************)
Absent == [has |-> FALSE, map |-> <<>>]
Mapping(pairs) == [has |-> TRUE, map |-> pairs]
Pair(key, value) == [k |-> key, v |-> value]

NoMeta == [has |-> FALSE, query |-> "", vars |-> Absent]
Meta(query, variables) == [has |-> TRUE, query |-> query, vars |-> variables]

\* the keys of the model in lexicographic order
SortedKeys == <<"a", "b", "v", "w", "x", "y">>

\* sortObject: the pairs in the order of their sorted keys (the values of the
\* model are scalars and lists, which sortUnknown leaves in place)
sortObject(inObject) ==
  LET keys == SelectSeq(SortedKeys,
                LAMBDA key : \E i \in 1..Len(inObject) : inObject[i].k = key)
  IN [n \in 1..Len(keys) |->
        inObject[CHOOSE i \in 1..Len(inObject) : inObject[i].k = keys[n]]]

\* jsonpathToCompressedJsonpath: {q, v} with empty members left out by
\* pickBy; a member left out reads as the empty value
jsonpathToCompressedJsonpath(jsonpath) ==
  [q |-> jsonpath.query,
   v |-> IF jsonpath.vars.has THEN sortObject(jsonpath.vars.map) ELSE <<>>]

NoCompressedJsonpath == [q |-> "", v |-> <<>>]

\* eventsToCompressedData: every filter compressed, the event names sorted
eventsToCompressedData(events) ==
  sortObject([i \in 1..Len(events) |->
                Pair(events[i].k, jsonpathToCompressedJsonpath(events[i].v))])

\* eventId-utils: the 16 bytes of an event id, fully written (timestamp,
\* checksum, ledger id), and the id read back from them; the n-th event id
\* of the ledger stands for its three parts (after = 0: no after)
toEventIdBytes(after) == <<after>>
fromEventIdBytes(a) == a[1]

\* encodeFilterSelector: pickBy({e, m, d, a, l}, includeInCompressed) leaves
\* out undefined, empty mappings and limits that are not positive; the
\* packer then writes the members that are left, so the token is given by
\* the members with a left-out one read as the empty value
encodeFilterSelector(selector) ==
  [e |-> IF selector.entities.has THEN sortObject(selector.entities.map) ELSE <<>>,
   m |-> IF selector.meta.has THEN jsonpathToCompressedJsonpath(selector.meta)
         ELSE NoCompressedJsonpath,
   d |-> IF selector.events.has THEN eventsToCompressedData(selector.events.map)
         ELSE <<>>,
   a |-> IF selector.after # 0 THEN toEventIdBytes(selector.after) ELSE <<>>,
   l |-> IF selector.limit > 0 THEN selector.limit ELSE 0]

\* encodeSelector: pickBy({a, l}, includeInCompressed)
encodeSelector(selector) ==
  [e |-> <<>>, m |-> NoCompressedJsonpath, d |-> <<>>,
   a |-> IF selector.after # 0 THEN toEventIdBytes(selector.after) ELSE <<>>,
   l |-> IF selector.limit > 0 THEN selector.limit ELSE 0]

\* isFilterSelector on a selector as passed: a member that is there, empty
\* or not, makes it a filter selector
isFilterSelectorIn(selector) ==
  selector.entities.has \/ selector.meta.has \/ selector.events.has

encodeUnknownSelector(selector) ==
  IF isFilterSelectorIn(selector) THEN encodeFilterSelector(selector)
  ELSE encodeSelector(selector)

\* const {limit, ...selector} = selectorIn
DropLimit(selectorIn) == [selectorIn EXCEPT !.limit = 0]

\* the selector the matcher works on: mappings by key
MatcherSelector(selector) ==
  [entities |-> [name \in {selector.entities.map[i].k :
                             i \in 1..Len(selector.entities.map)} |->
                   ListAsSet(selector.entities.map
                     [CHOOSE i \in 1..Len(selector.entities.map) :
                        selector.entities.map[i].k = name].v)],
   meta |-> IF selector.meta.has
            THEN Filter(selector.meta.query,
                        IF \E i \in 1..Len(selector.meta.vars.map) :
                             selector.meta.vars.map[i].k = "v"
                        THEN selector.meta.vars.map
                               [CHOOSE i \in 1..Len(selector.meta.vars.map) :
                                  selector.meta.vars.map[i].k = "v"].v
                        ELSE 0)
            ELSE NoFilter,
   events |-> EmptyMap]

\* createMatcher(selector) for a selector as passed: every member that is
\* there adds its matcher, so a filter selector whose members are all empty
\* matches nothing
subscriptionMatcher(selector, event) ==
  IF isFilterSelectorIn(selector) /\ ~isFilterSelector(MatcherSelector(selector))
  THEN FALSE
  ELSE createMatcher(MatcherSelector(selector), event)

FilterSelectorIn(entities, meta, events, after, limit) ==
  [entities |-> entities, meta |-> meta, events |-> events, after |-> after,
   limit |-> limit]

SelectorIn(entities, meta, limit) ==
  FilterSelectorIn(entities, meta, Absent, 0, limit)

\* a member of the unpacked mapping: undefined when it was left out
Unpacked(map) == IF map = <<>> THEN Absent ELSE Mapping(map)

compressedJsonpathToJsonpath(compressed) ==
  [query |-> compressed.q, vars |-> Unpacked(compressed.v)]

compressedDataToEvents(compressed) ==
  [i \in 1..Len(compressed) |->
     Pair(compressed[i].k, compressedJsonpathToJsonpath(compressed[i].v))]

compressedFilterToSelector(compressed) ==
  FilterSelectorIn(
    Unpacked(compressed.e),
    IF compressed.m # NoCompressedJsonpath
    THEN Meta(compressed.m.q, Unpacked(compressed.m.v)) ELSE NoMeta,
    IF compressed.d # <<>> THEN Mapping(compressedDataToEvents(compressed.d))
    ELSE Absent,
    IF compressed.a # <<>> THEN fromEventIdBytes(compressed.a) ELSE 0,
    compressed.l)

compressedSelectorToSelector(compressed) ==
  FilterSelectorIn(Absent, NoMeta, Absent,
                   IF compressed.a # <<>> THEN fromEventIdBytes(compressed.a) ELSE 0,
                   compressed.l)

\* decodeSelector on the mapping fromURIPart unpacks
decodeSelector(compressed) ==
  IF compressed.e # <<>> \/ compressed.m # NoCompressedJsonpath
     \/ compressed.d # <<>>
  THEN compressedFilterToSelector(compressed)
  ELSE compressedSelectorToSelector(compressed)

NotifySelectors ==
  {SelectorIn(Mapping(<<Pair("x", <<"1">>)>>), NoMeta, 0),
   SelectorIn(Absent, Meta("$.k ? (@ == 1)", Absent), 0)}

\* selectors that differ in limit, in the order of their keys, and in
\* members that are empty or absent
SubscribeSelectors ==
  {SelectorIn(Mapping(<<Pair("x", <<"1">>), Pair("y", <<"1">>)>>), NoMeta, 0),
   SelectorIn(Mapping(<<Pair("y", <<"1">>), Pair("x", <<"1">>)>>), NoMeta, 5),
   SelectorIn(Absent, Meta("$.k ? (@ == $v)",
                           Mapping(<<Pair("v", 1), Pair("w", 2)>>)), 0),
   SelectorIn(Absent, Meta("$.k ? (@ == $v)",
                           Mapping(<<Pair("w", 2), Pair("v", 1)>>)), 0),
   SelectorIn(Absent, Meta("$.k ? (@ == 1)", Absent), 0),
   SelectorIn(Absent, Meta("$.k ? (@ == 1)", Mapping(<<>>)), 0),
   SelectorIn(Absent, NoMeta, 0),
   SelectorIn(Absent, NoMeta, 5),
   SelectorIn(Mapping(<<>>), NoMeta, 0)}

\* the rows whose notifications arrive, and whether the payload had room for
\* meta and data
NotifyRows ==
  {[event |-> "a", entities |-> ("x" :> {"1"}), meta |-> Obj(1), data |-> Obj(1)],
   [event |-> "b", entities |-> ("y" :> {"1"}), meta |-> Obj(2), data |-> Obj(1)]}

Notifications ==
  {<<row, short>> \in NotifyRows \X BOOLEAN : short => row.event = "a"}

\* cuid of the n-th subscription
SubscriptionId(n) == IF n = 1 THEN "s1" ELSE IF n = 2 THEN "s2" ELSE "s3"

JsonString == [t |-> "string", k |-> 0]

\* rowToEventRow: meta and data are undefined when the payload left them out
rowToEventRow(eventId, row, short) ==
  [eventId |-> eventId, event |-> row.event, entities |-> row.entities,
   meta |-> IF short THEN Undefined ELSE row.meta,
   data |-> IF short THEN Undefined ELSE row.data]

\* evently.fetch_missing_data: the stored meta and data of the row
fetch_missing_data(row, needMeta) ==
  [meta |-> IF needMeta THEN row.meta ELSE Undefined, data |-> row.data]

\* fetchMissingEventColumns, once the query has answered
fetchMissingEventColumns(eventRow, row, needMeta) ==
  LET result == fetch_missing_data(row, needMeta)
  IN [eventRow EXCEPT !.meta = IF needMeta THEN result.meta ELSE @,
                      !.data = result.data]

\* toPersistedEvent: meta = {} and data = "" when undefined
toPersistedEvent(eventRow) ==
  [eventRow EXCEPT !.meta = IF @ = Undefined THEN Obj(0) ELSE @,
                   !.data = IF @ = Undefined THEN JsonString ELSE @]

\* subscriptionIds.join(",")
RECURSIVE Join(_)
Join(ids) ==
  IF Len(ids) = 0 THEN ""
  ELSE IF Len(ids) = 1 THEN ids[1]
  ELSE ids[1] \o "," \o Join(Tail(ids))

NoMessage == [retry |-> 0, event |-> "", id |-> 0, data |-> ""]

createEvent(position, subscriptionIds) ==
  [retry |-> SSE_RETRY, event |-> "Subscriptions Triggered", id |-> position,
   data |-> Join(subscriptionIds)]

\* the ids of the filters whose matcher accepts the event, in Map order
RECURSIVE MatchingIds(_, _)
MatchingIds(fs, event) ==
  IF Len(fs) = 0 THEN <<>>
  ELSE (IF subscriptionMatcher(Head(fs).selector, event) THEN <<Head(fs).id>> ELSE <<>>)
       \o MatchingIds(Tail(fs), event)

\* a filter that reports the first matching subscription only
createNotifySelectorFilter_FirstMatch(fs, event) ==
  LET subscriptionIds == MatchingIds(fs, event)
  IN IF Len(subscriptionIds) > 0
     THEN createEvent(event.eventId, <<subscriptionIds[1]>>)
     ELSE NoMessage

createNotifySelectorFilter(fs, event) ==
  LET subscriptionIds == MatchingIds(fs, event)
  IN IF Len(subscriptionIds) > 0
     THEN createEvent(event.eventId, subscriptionIds)
     ELSE NoMessage

\* asyncify: pushValue hands the value to a waiting pull or buffers it
pushValue(st, value) ==
  IF st.pullQueue > 0
  THEN [st EXCEPT !.pullQueue = @ - 1, !.sent = Append(@, value)]
  ELSE [st EXCEPT !.pushQueue = Append(@, value)]

\* asyncify: pullValue takes a buffered value or queues the pull
pullValue(st) ==
  IF Len(st.pushQueue) > 0
  THEN [st EXCEPT !.pushQueue = Tail(@), !.sent = Append(@, Head(st.pushQueue))]
  ELSE [st EXCEPT !.pullQueue = @ + 1]

\* a termination that leaves the waiting pulls unresolved
emptyQueue_KeepsPulls(st) ==
  IF st.listening
  THEN [st EXCEPT !.listening = FALSE, !.pushQueue = <<>>, !.closed = @ + 1]
  ELSE st

\* asyncify: emptyQueue resolves the waiting pulls with done = true, drops
\* the buffer and calls onClose, once
emptyQueue(st) ==
  IF st.listening
  THEN [st EXCEPT !.listening = FALSE, !.pullQueue = 0, !.pushQueue = <<>>,
                  !.closed = @ + 1,
                  !.done = @ \/ st.pullQueue > 0]
  ELSE st

\* the listener variable of asyncify: the stream's own listener once the
\* provider's promise has been handled, undefined (0) before
Listener(s) == IF stream[s].assigned THEN s ELSE 0

removeEventListener(ls, listener) == SelectSeq(ls, LAMBDA l : l # listener)

\* onClose of every stream in `closing` that is still listening:
\* registrar.removeEventListener(listener)
RECURSIVE onClose(_, _)
onClose(ls, closing) ==
  IF closing = {} THEN ls
  ELSE LET s == CHOOSE r \in closing : TRUE
       IN onClose(IF stream[s].listening
                  THEN removeEventListener(ls, Listener(s)) ELSE ls,
                  closing \ {s})

NewStream ==
  [opened |-> FALSE, channel |-> "", listening |-> FALSE, assigned |-> FALSE,
   closed |-> 0, pullQueue |-> 0, pushQueue |-> <<>>, sent |-> <<>>,
   done |-> FALSE]

\* cuid of the n-th channel
ChannelId(n) == IF n = 1 THEN "c1" ELSE IF n = 2 THEN "c2" ELSE "c3"
MaxChannels == 1
ChannelIds == {ChannelId(n) : n \in 1..MaxChannels}
SubscriptionIds == {SubscriptionId(n) : n \in 1..MaxSubs}

NoLastEventId == "undefined"
LastEventIds == {NoLastEventId, "", "41"}

\* what a call of the Channels interface gave back: "200" with its value,
\* or the status of the error thrown
Reply(status, value) == [status |-> status, value |-> value]
NoReply == Reply("", "")
NotFound == Reply("404", "")
BadRequest == Reply("400", "")

NotifyStart ==
  /\ channels = {}
  /\ nextChannel = 1
  /\ reply = NoReply
  /\ filters = <<>>
  /\ nextSub = 1
  /\ stream = [s \in Streams |-> NewStream]
  /\ listeners = <<>>
  /\ fetching = {}
  /\ nCount = 0
  /\ deliveries = <<>>
  /\ pushed = [s \in Streams |-> <<>>]

\* the same once a channel is open
ChannelStart ==
  /\ channels = {ChannelId(1)}
  /\ nextChannel = 2
  /\ reply = NoReply
  /\ filters = <<>>
  /\ nextSub = 1
  /\ stream = [s \in Streams |-> NewStream]
  /\ listeners = <<>>
  /\ fetching = {}
  /\ nCount = 0
  /\ deliveries = <<>>
  /\ pushed = [s \in Streams |-> <<>>]

NotNotify == <<matchVars, restVars, selectVars, dbVars, foldVars, appendVars, cacheVars>>

\* the filters map of a channel, in insertion order
ChannelFilters(fs, c) == SelectSeq(fs, LAMBDA f : f.channel = c)

\* channels.open: a channel with a new cuid is put into the map
channelsOpen ==
  /\ nextChannel <= MaxChannels
  /\ channels' = channels \cup {ChannelId(nextChannel)}
  /\ nextChannel' = nextChannel + 1
  /\ reply' = Reply("200", ChannelId(nextChannel))
  /\ UNCHANGED <<filters, nextSub, stream, listeners, fetching, nCount, deliveries,
                 pushed>>

\* channels.open, whatever the ledger
handleOpenChannel == channelsOpen /\ UNCHANGED NotNotify

\* channels.exists
handleChannelExists(c) ==
  /\ reply' = Reply("200", IF c \in channels THEN "true" ELSE "false")
  /\ UNCHANGED <<channels, nextChannel, filters, nextSub, stream, listeners,
                 fetching, nCount, deliveries, pushed, NotNotify>>

\* channels.subscribe: getChannel, then channel.subscribe, idempotent on the
\* encoded selector
handleSubscribe(c, selectorIn) ==
  /\ IF c \notin channels
     THEN /\ reply' = NotFound
          /\ UNCHANGED <<filters, nextSub>>
     ELSE LET selector == DropLimit(selectorIn)
              key == encodeUnknownSelector(selector)
              held == SelectSeq(ChannelFilters(filters, c), LAMBDA f : f.key = key)
          IN IF Len(held) > 0
             THEN /\ reply' = Reply("200", held[1].id)
                  /\ UNCHANGED <<filters, nextSub>>
             ELSE /\ nextSub <= MaxSubs
                  /\ filters' = Append(filters,
                                  [channel |-> c, key |-> key,
                                   id |-> SubscriptionId(nextSub),
                                   selector |-> selector])
                  /\ nextSub' = nextSub + 1
                  /\ reply' = Reply("200", SubscriptionId(nextSub))
  /\ UNCHANGED <<channels, nextChannel, stream, listeners, fetching, nCount,
                 deliveries, pushed, NotNotify>>

\* channels.unsubscribe: getChannel, then channel.unsubscribe
handleUnsubscribe(c, subscriptionId) ==
  /\ IF c \notin channels
     THEN /\ reply' = NotFound
          /\ UNCHANGED filters
     ELSE /\ filters' = SelectSeq(filters,
                          LAMBDA f : ~(f.channel = c /\ f.id = subscriptionId))
          /\ reply' = Reply("200", "")
  /\ UNCHANGED <<channels, nextChannel, nextSub, stream, listeners, fetching,
                 nCount, deliveries, pushed, NotNotify>>

\* channels.subscriptions: the ids of the channel's filters
getSubscriptions(c) ==
  /\ reply' = IF c \notin channels THEN NotFound
              ELSE LET fs == ChannelFilters(filters, c)
                   IN Reply("200", Join([i \in 1..Len(fs) |-> fs[i].id]))
  /\ UNCHANGED <<channels, nextChannel, filters, nextSub, stream, listeners,
                 fetching, nCount, deliveries, pushed, NotNotify>>

\* channels.subscription: the stored selector (here its key), or undefined
getSubscription(c, subscriptionId) ==
  /\ reply' = IF c \notin channels THEN NotFound
              ELSE LET fs == SelectSeq(ChannelFilters(filters, c),
                                       LAMBDA f : f.id = subscriptionId)
                   IN Reply("200", IF Len(fs) > 0 THEN "selector" ELSE "undefined")
  /\ UNCHANGED <<channels, nextChannel, filters, nextSub, stream, listeners,
                 fetching, nCount, deliveries, pushed, NotNotify>>

\* channels.openEventStream: getChannel, then channel.openEventStream, which
\* throws when `after` is truthy and else starts asyncify: the provider
\* registers the stream's listener with the adapter before its first await.
\* Streams are numbered as they are opened.
openEventStream(c, s, after) ==
  /\ ~stream[s].opened
  /\ \A r \in Streams : r < s => stream[r].opened
  /\ IF c \notin channels
     THEN /\ reply' = NotFound
          /\ UNCHANGED <<stream, listeners>>
     ELSE IF after \notin {NoLastEventId, ""}
     THEN /\ reply' = BadRequest
          /\ UNCHANGED <<stream, listeners>>
     ELSE /\ stream' = [stream EXCEPT ![s] =
                          [@ EXCEPT !.opened = TRUE, !.channel = c,
                                    !.listening = TRUE]]
          /\ listeners' = Append(listeners, s)
          /\ reply' = Reply("200", "")
  /\ UNCHANGED <<channels, nextChannel, filters, nextSub, fetching, nCount,
                 deliveries, pushed, NotNotify>>

\* the provider's promise is handled: .then(l => { listener = l })
ListenerResolved(s) ==
  /\ stream[s].opened
  /\ ~stream[s].assigned
  /\ stream' = [stream EXCEPT ![s] = [@ EXCEPT !.assigned = TRUE]]
  /\ UNCHANGED <<channels, nextChannel, reply, filters, nextSub, listeners,
                 fetching, nCount, deliveries, pushed, NotNotify>>

\* openEventStream together with the microtasks it queued, which run before
\* the next notification or request is taken up
openEventStreamSettled(c, s) ==
  /\ ~stream[s].opened
  /\ \A r \in Streams : r < s => stream[r].opened
  /\ c \in channels
  /\ stream' = [stream EXCEPT ![s] =
                  [@ EXCEPT !.opened = TRUE, !.channel = c, !.listening = TRUE,
                            !.assigned = TRUE]]
  /\ listeners' = Append(listeners, s)
  /\ reply' = Reply("200", "")
  /\ UNCHANGED <<channels, nextChannel, filters, nextSub, fetching, nCount,
                 deliveries, pushed, NotNotify>>

\* next() on a listening stream: the SSE writer asks for the next message;
\* one pull waits at a time
StreamNext(s) ==
  /\ stream[s].listening
  /\ stream[s].pullQueue = 0
  /\ stream' = [stream EXCEPT ![s] = pullValue(@)]
  /\ UNCHANGED <<channels, nextChannel, reply, filters, nextSub, listeners,
                 fetching, nCount, deliveries, pushed, NotNotify>>

\* next() on a stream that no longer listens is return()
StreamNextEnded(s) ==
  /\ stream[s].opened
  /\ ~stream[s].listening
  /\ stream' = [stream EXCEPT ![s] = [emptyQueue(@) EXCEPT !.done = TRUE]]
  /\ UNCHANGED <<channels, nextChannel, reply, filters, nextSub, listeners,
                 fetching, nCount, deliveries, pushed, NotNotify>>

\* return() or throw() by the consumer: the client went away
StreamReturn(s) ==
  /\ stream[s].opened
  /\ stream' = [stream EXCEPT ![s] = emptyQueue(@)]
  /\ listeners' = onClose(listeners, {s})
  /\ UNCHANGED <<channels, nextChannel, reply, filters, nextSub, fetching, nCount,
                 deliveries, pushed, NotNotify>>

\* channels.close: getChannel, channels.delete, then channel.close, which
\* calls return() on every stream of the channel
handleCloseChannel(c) ==
  /\ IF c \notin channels
     THEN /\ reply' = NotFound
          /\ UNCHANGED <<channels, stream, listeners>>
     ELSE LET sseStreams == {s \in Streams : stream[s].opened /\ stream[s].channel = c}
          IN /\ channels' = channels \ {c}
             /\ stream' = [s \in Streams |->
                             IF s \in sseStreams THEN emptyQueue(stream[s])
                             ELSE stream[s]]
             /\ listeners' = onClose(listeners, sseStreams)
             /\ reply' = Reply("200", "")
  /\ UNCHANGED <<nextChannel, filters, nextSub, fetching, nCount, deliveries,
                 pushed, NotNotify>>

\* listeners.forEach((l) => l(event)): the listener of a stream runs the
\* filters of the stream's channel and pushes the message, if any
Dispatch(eventRow) ==
  LET event == toPersistedEvent(eventRow)
      heard == ListAsSet(listeners)
      eventMessage(s) ==
        createNotifySelectorFilter(ChannelFilters(filters, stream[s].channel), event)
  IN /\ stream' = [s \in Streams |->
                     IF s \in heard /\ eventMessage(s) # NoMessage
                     THEN pushValue(stream[s], eventMessage(s)) ELSE stream[s]]
     /\ pushed' = [s \in Streams |->
                     IF s \in heard /\ eventMessage(s) # NoMessage
                     THEN Append(pushed[s], eventMessage(s)) ELSE pushed[s]]
     /\ deliveries' = Append(deliveries,
                        [event |-> event, filters |-> filters, listeners |-> heard,
                         terminated |-> {s \in heard : ~stream[s].listening}])

\* handleEventNotify up to its await: a notification arrives
eventNotify(notifications) ==
  /\ nCount < MaxNotifications
  /\ nCount' = nCount + 1
  /\ \E n \in notifications :
       LET row == n[1]
           eventRow == rowToEventRow(nCount + 1, row, n[2])
           missingMeta == eventRow.meta = Undefined
           missingData == eventRow.data = Undefined
       IN IF Len(listeners) > 0
          THEN IF missingMeta \/ missingData
               THEN /\ fetching' = fetching \cup
                          {[eventRow |-> eventRow, row |-> row,
                            needMeta |-> missingMeta]}
                    /\ UNCHANGED <<stream, pushed, deliveries>>
               ELSE /\ Dispatch(eventRow)
                    /\ UNCHANGED fetching
          ELSE UNCHANGED <<stream, pushed, deliveries, fetching>>
  /\ UNCHANGED <<channels, nextChannel, reply, filters, nextSub, listeners>>

\* a notification arrives, whatever its ledger
handleEventNotify(notifications) ==
  eventNotify(notifications) /\ UNCHANGED NotNotify

\* handleEventNotify after its await: fetch_missing_data answered
FetchedMissingColumns ==
  /\ \E f \in fetching :
       /\ fetching' = fetching \ {f}
       /\ Dispatch(fetchMissingEventColumns(f.eventRow, f.row, f.needMeta))
  /\ UNCHANGED <<channels, nextChannel, reply, filters, nextSub, listeners, nCount,
                 NotNotify>>

\* one channel: subscriptions, streams and notifications
NotifyNext ==
  \/ \E selector \in NotifySelectors : handleSubscribe(ChannelId(1), selector)
  \/ \E id \in SubscriptionIds : handleUnsubscribe(ChannelId(1), id)
  \/ \E s \in Streams : openEventStreamSettled(ChannelId(1), s)
  \/ \E s \in Streams : StreamNext(s)
  \/ \E s \in Streams : StreamReturn(s)
  \/ handleEventNotify(Notifications)
  \/ FetchedMissingColumns

\* one channel whose subscriptions change and are listed while its streams
\* are open
LiveNext ==
  \/ NotifyNext
  \/ getSubscriptions(ChannelId(1))

\* subscriptions on channels that open and close
SubscribeNext ==
  \/ handleOpenChannel
  \/ \E c \in ChannelIds : handleCloseChannel(c)
  \/ \E c \in ChannelIds, selector \in SubscribeSelectors : handleSubscribe(c, selector)
  \/ \E c \in ChannelIds, id \in SubscriptionIds : handleUnsubscribe(c, id)
  \/ \E c \in ChannelIds : getSubscriptions(c)
  \/ \E c \in ChannelIds, id \in SubscriptionIds : getSubscription(c, id)

\* the selector subscribed and the notification that arrives while channels
\* and streams come and go
ChannelsSelector == SelectorIn(Mapping(<<Pair("x", <<"1">>)>>), NoMeta, 0)
ChannelsNotifications == {n \in Notifications : n[1].event = "a" /\ ~n[2]}

\* the life of channels and of the streams opened on them
ChannelsNext ==
  \/ handleOpenChannel
  \/ \E c \in ChannelIds : handleChannelExists(c)
  \/ \E c \in ChannelIds : handleCloseChannel(c)
  \/ \E c \in ChannelIds : handleSubscribe(c, ChannelsSelector)
  \/ \E c \in ChannelIds : handleUnsubscribe(c, SubscriptionId(1))
  \/ \E c \in ChannelIds : getSubscriptions(c)
  \/ \E c \in ChannelIds : getSubscription(c, SubscriptionId(1))
  \/ \E c \in ChannelIds, s \in Streams, after \in LastEventIds :
       openEventStream(c, s, after)
  \/ \E s \in Streams : ListenerResolved(s)
  \/ \E s \in Streams : StreamNext(s)
  \/ \E s \in Streams : StreamNextEnded(s)
  \/ \E s \in Streams : StreamReturn(s)
  \/ handleEventNotify(ChannelsNotifications)

(***************************************************************************)
(* shutdown.ts: the shutdown hook registrar, and the hooks initAll         *)
(* registers.  A hook is a function; calling it returns a value, throws,   *)
(* or returns a promise that resolves or rejects later.                    *)
(***************************************************************************)
POOL_HOOK == "Postgres Pool"
LISTENER_HOOK == "Postgres Event Listener"
REST_HOOK == "REST Service"

HookKinds == {"returns", "throws", "resolves", "rejects"}

ShutdownHook(name, kind) == [name |-> name, kind |-> kind]

\* hookResult instanceof Promise
IsPromise(kind) == kind \in {"resolves", "rejects"}

IdleClose == [pc |-> "idle", i |-> 0, awaiting |-> 0]

ShutdownStart ==
  /\ hooks = <<>>
  /\ closeFn = IdleClose
  /\ pending = {}
  /\ hookLog = <<>>
  /\ initPc = 0


\* the registrar initShutdownRegistrar returns: hooks.unshift({name, hook})
registerHook(name, kind) == hooks' = <<ShutdownHook(name, kind)>> \o hooks

\* initAll: pg.init, notifyChannels.init and api.launch register their hooks,
\* in this order, each after the awaits that precede it
pgInit ==
  /\ initPc = 0
  /\ \E kind \in HookKinds : registerHook(POOL_HOOK, kind)
  /\ initPc' = 1
  /\ UNCHANGED <<closeFn, pending, hookLog, NotShutdown>>

notifyInit ==
  /\ initPc = 1
  /\ \E kind \in HookKinds : registerHook(LISTENER_HOOK, kind)
  /\ initPc' = 2
  /\ UNCHANGED <<closeFn, pending, hookLog, NotShutdown>>

launch ==
  /\ initPc = 2
  /\ \E kind \in HookKinds : registerHook(REST_HOOK, kind)
  /\ initPc' = 3
  /\ UNCHANGED <<closeFn, pending, hookLog, NotShutdown>>

Started(name, call) == [at |-> "start", name |-> name, call |-> call]
Ended(name, call) == [at |-> "end", name |-> name, call |-> call]

\* the turns of `for (const {name, hook} of hooks)` from index i up to the
\* first await or the end of the array: the array iterator reads the element
\* at its index from the array as it is now; a hook that returns no promise
\* or throws is followed by the next turn at once
RECURSIVE runHooks(_, _)
runHooks(i, log) ==
  IF i > Len(hooks)
  THEN [closeFn |-> [pc |-> "done", i |-> i, awaiting |-> 0], hookLog |-> log]
  ELSE LET h == hooks[i]
           call == Len(log) + 1
       IN IF IsPromise(h.kind)
          THEN [closeFn |-> [pc |-> "await", i |-> i, awaiting |-> call],
                hookLog |-> Append(log, Started(h.name, call))]
          ELSE runHooks(i + 1, log \o <<Started(h.name, call), Ended(h.name, call)>>)

Awaited(c) == IF c.awaiting = 0 THEN {} ELSE {c.awaiting}

\* close-with-grace calls the close callback once, with the error that made
\* the process stop or without one
close(closeError) ==
  /\ closeFn.pc = "idle"
  /\ IF closeError
     THEN /\ closeFn' = [IdleClose EXCEPT !.pc = "done"]
          /\ UNCHANGED <<pending, hookLog>>
     ELSE LET r == runHooks(1, hookLog)
          IN /\ closeFn' = r.closeFn
             /\ hookLog' = r.hookLog
             /\ pending' = pending \cup Awaited(r.closeFn)
  /\ UNCHANGED <<hooks, initPc, NotShutdown>>

\* the promise a hook returned settles
settleHook(call) ==
  /\ call \in pending
  /\ pending' = pending \ {call}
  /\ hookLog' = Append(hookLog, Ended(hookLog[call].name, call))
  /\ UNCHANGED <<hooks, closeFn, initPc, NotShutdown>>

\* `await hookResult` returns or throws into the catch; the loop goes on
awaitHook ==
  /\ closeFn.pc = "await"
  /\ closeFn.awaiting \notin pending
  /\ LET r == runHooks(closeFn.i + 1, hookLog)
     IN /\ closeFn' = r.closeFn
        /\ hookLog' = r.hookLog
        /\ pending' = pending \cup Awaited(r.closeFn)
  /\ UNCHANGED <<hooks, initPc, NotShutdown>>

(***************************************************************************)
(* api/auth: the Bearer token check (preValidation hook) and the           *)
(* permission check (preHandler hook) in front of every endpoint handler.  *)
(***************************************************************************)
Roles == {"public", "admin", "registrar", "client", "reader", "appender"}

Permissions ==
  {"read-public", "read-ledgers", "create-ledger", "delete-ledger",
   "reset-ledger", "download-ledger", "read-registry", "register-event",
   "unregister-event", "replay-events", "append-event",
   "subscribe-notifications"}

RbacRole(can, inherits) == [can |-> can, inherits |-> inherits]

RbacConfig ==
  [role \in Roles |->
     CASE role = "public" -> RbacRole({"read-public"}, {})
       [] role = "admin" ->
            RbacRole({"read-ledgers", "create-ledger", "delete-ledger",
                      "reset-ledger", "download-ledger"}, {"public"})
       [] role = "registrar" ->
            RbacRole({"read-registry", "register-event", "unregister-event"},
                     {"public"})
       [] role = "reader" -> RbacRole({"replay-events"}, {"public"})
       [] role = "appender" -> RbacRole({"append-event"}, {"public"})
       [] role = "client" ->
            RbacRole({"subscribe-notifications"}, {"reader", "appender"})]

\* rbac.can(role, permission): the role or a role it inherits from can
RECURSIVE can(_, _)
can(role, permission) ==
  /\ role \in DOMAIN RbacConfig
  /\ \/ permission \in RbacConfig[role].can
     \/ \E parent \in RbacConfig[role].inherits : can(parent, permission)

\* the roles of a token are not validated: any non-empty list of non-empty
\* strings passes claimsSpec
MaxRoles == 2
TokenRoles == Roles \cup {"guest"}
RoleLists == UNION {[1..n -> TokenRoles] : n \in 1..MaxRoles}

NoRoles == [has |-> FALSE, roles |-> <<>>]
SomeRoles(roles) == [has |-> TRUE, roles |-> roles]

\* truthy or falsy
verifyRolePermission(permission, roles) ==
  /\ roles.has
  /\ IF Len(roles.roles) = 1
     THEN can(roles.roles[1], permission)
     ELSE \E i \in 1..Len(roles.roles) : can(roles.roles[i], permission)

Tokens == {"none", "invalid", "valid"}

IdleRequest ==
  [pc |-> "idle", token |-> "none", roles |-> <<>>, permission |-> "",
   ctxRoles |-> NoRoles, status |-> 0, handled |-> FALSE]

AuthStart == req = IdleRequest

\* a request arrives at an endpoint registered with allowed(permission); the
\* preValidation hook runs processAuth
processAuth(token, roles, permission) ==
  /\ req.pc = "idle"
  /\ req' = IF token = "valid"
            THEN [req EXCEPT !.pc = "preHandler", !.token = token,
                             !.roles = roles, !.permission = permission,
                             !.ctxRoles = SomeRoles(roles)]
            ELSE [req EXCEPT !.pc = "replied", !.token = token,
                             !.permission = permission, !.status = 401]
  /\ UNCHANGED NotAuth

\* the preHandler hook allowed(p) returns
allowed ==
  /\ req.pc = "preHandler"
  /\ req' = IF verifyRolePermission(req.permission, req.ctxRoles)
            THEN [req EXCEPT !.pc = "handler"]
            ELSE [req EXCEPT !.pc = "replied", !.status = 401]
  /\ UNCHANGED NotAuth

\* the endpoint handler runs and replies
handleRequest ==
  /\ req.pc = "handler"
  /\ req' = [req EXCEPT !.pc = "replied", !.status = 200, !.handled = TRUE]
  /\ UNCHANGED NotAuth

AuthNext ==
  \/ \E token \in Tokens, roles \in RoleLists, permission \in Permissions :
       processAuth(token, roles, permission)
  \/ allowed
  \/ handleRequest

(***************************************************************************)
(* api/selectors-endpoints: HEAD and GET of a selector URI.  The event id  *)
(* of a row is its position in the ledger; after = 0 is "no after" and     *)
(* event id 0 is the ledger's genesis.                                     *)
(***************************************************************************)
MaxEtagRows == 3

EtagRows ==
  {Row("a", ("x" :> {"1"}), Obj(1), Obj(1), "k"),
   Row("a", ("y" :> {"1"}), Obj(1), Obj(1), "k")}

EtagSelectors == {NoSelector, AppendSelector}
EtagLimits == {0, 1, 2}

EventId(timestamp) ==
  [ledgerId |-> LedgerId, timestamp |-> timestamp, checksum |-> 0]

\* the hex text of an event id
eventIdToString(id) == <<id.timestamp, id.checksum, id.ledgerId>>

Text(text) == [text |-> text, quotes |-> 0]

\* `"${tagStr}"`
toEtag(tagStr) == [tagStr EXCEPT !.quotes = @ + 1]

\* handleReplyEtagAndCacheControl: the etag header of the reply
handleReplyEtagAndCacheControl(etag) ==
  IF etag.quotes = 0 THEN toEtag(etag) ELSE etag

\* the positions of the rows of the ledger the predicate selects
MatchingRows(rows, sql) ==
  SelectSeq([i \in 1..Len(rows) |-> i], LAMBDA i : EvalSql(sql, rows[i]))

\* the position a query reads through: the last of the matching rows later
\* than afterTs, of the first `limit` of them when there is a limit; 0 when
\* there is none
ReadThrough(matching, afterTs, limit) ==
  LET later == SelectSeq(matching, LAMBDA i : i > afterTs)
      bounded == IF limit > 0 THEN Take(later, limit) ELSE later
  IN IF Len(bounded) = 0 THEN 0 ELSE Last(bounded)

\* what the database may make of a predicate whose text is empty
EmptyPredicates == {"true", "false", "syntax error"}

\* evently.fetch_event_id: the header row, or no row
fetch_event_id(rows, sql, afterTs, limit) ==
  ReadThrough(MatchingRows(rows, sql), afterTs, limit)

\* the header row of evently.run_selector, or no row
run_selector_header(rows, sql, afterTs, limit) ==
  ReadThrough(MatchingRows(rows, sql), afterTs, limit)

\* latestEventId
latestEventId(rows, selector, emptyIs) ==
  LET query == unknownSelectorToSql(selector.selector)
      predicate == IF query = SqlLiteral("") THEN SqlLiteral(emptyIs) ELSE query
      idRow == fetch_event_id(rows, predicate, selector.after, selector.limit)
  IN IF idRow # 0 THEN EventId(idRow) ELSE EventId(selector.after)

\* fetchSelectorResult: runFilter generates the predicate of a filter
\* selector, allEvents passes "true"
SelectorQuery(selector) ==
  IF isFilterSelector(selector) THEN filterSelectorToSql(selector)
  ELSE SqlLiteral("true")

\* fetchSelectorResult, executeSelector, tryExecuteSelector: the position of
\* the result
SelectorPosition(rows, selector) ==
  LET query == SelectorQuery(selector.selector)
      idRow == run_selector_header(rows, query, selector.after, selector.limit)
  IN IF idRow # 0 THEN EventId(idRow) ELSE EventId(selector.after)

NoEtag == [text |-> <<>>, quotes |-> 0]

NoRequest ==
  [done |-> FALSE, selector |-> [selector |-> NoSelector, after |-> 0, limit |-> 0],
   at |-> 0, status |-> 0, etag |-> NoEtag, sql |-> SqlLiteral("")]

\* a request that was answered, and the predicate it sent to the database
Served(selector, status, etag, query) ==
  [done |-> TRUE, selector |-> selector, at |-> Len(ledger), status |-> status,
   etag |-> etag, sql |-> query]

EtagStart == sel = [method \in {"HEAD", "GET"} |-> NoRequest]

\* an event is appended to the ledger
CommitEvent ==
  /\ Len(ledger) < MaxEtagRows
  /\ \E row \in EtagRows : ledger' = Append(ledger, row)
  /\ UNCHANGED <<matchVars, selectVars, foldVars, appendVars, notifyVars,
                 cacheVars, restVars>>

DecodedSelectors ==
  {[selector |-> s, after |-> a, limit |-> l] :
     s \in EtagSelectors, a \in 0..Len(ledger), l \in EtagLimits}

\* HEAD /selectors/:select
handleHeadSelector(selector, emptyIs) ==
  /\ IF unknownSelectorToSql(selector.selector) = SqlLiteral("")
        /\ emptyIs = "syntax error"
     THEN sel' = [sel EXCEPT !["HEAD"] =
                  Served(selector, 500, NoEtag, unknownSelectorToSql(selector.selector))]
     ELSE LET after == latestEventId(ledger, selector, emptyIs)
              etag == handleReplyEtagAndCacheControl(Text(eventIdToString(after)))
          IN sel' = [sel EXCEPT !["HEAD"] =
                       Served(selector, 200, etag,
                              unknownSelectorToSql(selector.selector))]
  /\ UNCHANGED NotEtag

\* GET /selectors/:select without If-None-Match: handleGetSelector and
\* replyWithSelectorResult
handleGetSelector(selector) ==
  /\ LET position == SelectorPosition(ledger, selector)
         afterStr == Text(eventIdToString(position))
         etag == handleReplyEtagAndCacheControl(toEtag(afterStr))
     IN sel' = [sel EXCEPT !["GET"] =
                  Served(selector, 200, etag, SelectorQuery(selector.selector))]
  /\ UNCHANGED NotEtag

EtagNext ==
  \/ CommitEvent
  \/ \E selector \in DecodedSelectors, emptyIs \in EmptyPredicates :
       handleHeadSelector(selector, emptyIs)
  \/ \E selector \in DecodedSelectors : handleGetSelector(selector)

(***************************************************************************)
(* selector-utils.ts: a selector is encoded into a URI token and the token *)
(* decoded again.                                                          *)
(***************************************************************************)
MaxCodec == 2

CodecEntities ==
  {Absent, Mapping(<<>>),
   Mapping(<<Pair("x", <<"1">>), Pair("y", <<"2", "1">>)>>),
   Mapping(<<Pair("y", <<"2", "1">>), Pair("x", <<"1">>)>>)}

CodecVars ==
  {Absent, Mapping(<<>>), Mapping(<<Pair("v", 1), Pair("w", 2)>>),
   Mapping(<<Pair("w", 2), Pair("v", 1)>>)}

CodecMetas == {NoMeta} \cup {Meta("$.k ? (@ == $v)", v) : v \in CodecVars}

JsonpathFilter(query, variables) == [query |-> query, vars |-> variables]

CodecEvents ==
  {Absent, Mapping(<<>>),
   Mapping(<<Pair("a", JsonpathFilter("$", Absent)),
             Pair("b", JsonpathFilter("$.k", Mapping(<<Pair("v", 1)>>)))>>),
   Mapping(<<Pair("b", JsonpathFilter("$.k", Mapping(<<Pair("v", 1)>>))),
             Pair("a", JsonpathFilter("$", Absent))>>)}

CodecSelectors ==
  {FilterSelectorIn(e, m, d, a, l) :
     e \in CodecEntities, m \in CodecMetas, d \in CodecEvents,
     a \in {0, 1}, l \in {0, 5}}

CodecStart == codec = <<>>

\* a selector is encoded (POST lookup, Link relations) and its token decoded
\* (GET, HEAD)
roundTrip(selector) ==
  /\ Len(codec) < MaxCodec
  /\ LET token == encodeUnknownSelector(selector)
     IN codec' = Append(codec, [selector |-> selector, token |-> token,
                                decoded |-> decodeSelector(token)])
  /\ UNCHANGED NotCodec

CodecNext == \E selector \in CodecSelectors : roundTrip(selector)

(***************************************************************************)
(* notify: the ledgers of channels and of notifications.  The adapter      *)
(* listens on the one Postgres channel ALL_EVENTS and keeps one listeners  *)
(* array; a notification row starts with the ledger_id of its event.       *)
(***************************************************************************)
MaxLedgers == 2
OtherLedgerId == "00000002"
LedgerIds == {IF n = 1 THEN LedgerId ELSE OtherLedgerId : n \in 1..MaxLedgers}

\* createKey: `${id}|${channelId}`
createKey(ledgerId, channelId) == <<ledgerId, channelId>>

\* the channels open at the start were opened for the first ledger
TenantStart ==
  /\ channelKeys = {createKey(LedgerId, c) : c \in channels}
  /\ notified = <<>>

NotNotifyNorTenant ==
  <<matchVars, selectVars, dbVars, foldVars, appendVars, cacheVars,
    shutdownVars, authVars, etagVars, codecVars, removeVars, asyncVars,
    moreVars>>

\* getChannel: the channel id the key of (ledger, channelId) leads to, or a
\* channel id the map has no key for
NoChannel == ""
getChannel(ledgerId, channelId) ==
  IF createKey(ledgerId, channelId) \in channelKeys THEN channelId ELSE NoChannel

\* channels.open(ledger): handleOpenChannel
openChannel(ledgerId) ==
  /\ channelsOpen
  /\ channelKeys' = channelKeys \cup {createKey(ledgerId, ChannelId(nextChannel))}
  /\ UNCHANGED <<notified, NotNotifyNorTenant>>

\* channels.subscribe(ledger, channelId, selector)
subscribe(ledgerId, channelId, selector) ==
  handleSubscribe(getChannel(ledgerId, channelId), selector)

\* channels.openEventStream(ledger, channelId) and its microtasks
openLedgerEventStream(ledgerId, channelId, s) ==
  /\ getChannel(ledgerId, channelId) # NoChannel
  /\ openEventStreamSettled(channelId, s)

\* Postgres notifies ALL_EVENTS of an event committed to a ledger
notifyAllEvents(ledgerId, notifications) ==
  /\ eventNotify(notifications)
  /\ notified' = Append(notified, ledgerId)
  /\ UNCHANGED <<channelKeys, NotNotifyNorTenant>>

\* channels of two ledgers, their subscriptions and streams, and the
\* notifications of both ledgers
TenantNext ==
  \/ \E l \in LedgerIds : openChannel(l)
  \/ \E l \in LedgerIds, c \in ChannelIds : subscribe(l, c, ChannelsSelector)
  \/ \E l \in LedgerIds, c \in ChannelIds, s \in Streams :
       openLedgerEventStream(l, c, s)
  \/ \E s \in Streams : StreamNext(s)
  \/ \E l \in LedgerIds : notifyAllEvents(l, Notifications)
  \/ FetchedMissingColumns

(***************************************************************************)
(* ledgers: forLedgerId (cachedLedgerForId) beside removeLedger.  Queries  *)
(* go out over a pool of connections: the database runs them in some      *)
(* order, and their answers come back in any order.                        *)
(***************************************************************************)
RemoveStart ==
  /\ ledgerRows = TRUE
  /\ lookups = [c \in Callers |-> "none"]
  /\ removal = "idle"
  /\ lstarted = [c \in Callers |-> FALSE]

NotRemove ==
  <<matchVars, selectVars, dbVars, foldVars, appendVars, notifyVars, reader,
    shutdownVars, authVars, etagVars, codecVars, tenantVars, asyncVars,
    moreVars>>

\* forLedgerId: cachedLedgerForId up to its await; a hit returns the cached
\* ledger, a miss sends the lookup
forLedgerId(c) ==
  /\ lcaller[c] # "lookup"
  /\ lcaller' = [lcaller EXCEPT ![c] = IF lcache THEN "hit" ELSE "lookup"]
  /\ lstarted' = [lstarted EXCEPT ![c] = removal = "returned"]
  /\ UNCHANGED <<lcache, ledgerRows, lookups, removal, NotRemove>>

\* the database runs the query of ledgerForId
runLedgerForId(c) ==
  /\ lcaller[c] = "lookup"
  /\ lookups[c] = "none"
  /\ lookups' = [lookups EXCEPT ![c] = IF ledgerRows THEN "found" ELSE "absent"]
  /\ UNCHANGED <<lcache, lcaller, ledgerRows, removal, lstarted, NotRemove>>

\* cachedLedgerForId after its await: a ledger found is cached and returned
ledgerForIdAnswered(c) ==
  /\ lcaller[c] = "lookup"
  /\ lookups[c] # "none"
  /\ lcache' = IF lookups[c] = "found" THEN TRUE ELSE lcache
  /\ lcaller' = [lcaller EXCEPT ![c] = IF lookups[c] = "found" THEN "miss" ELSE "absent"]
  /\ lookups' = [lookups EXCEPT ![c] = "none"]
  /\ UNCHANGED <<ledgerRows, removal, lstarted, NotRemove>>

\* removeLedger up to its await: evently.remove_ledger runs
removeLedger ==
  /\ removal = "idle"
  /\ removal' = "await"
  /\ ledgerRows' = FALSE
  /\ UNCHANGED <<lcache, lcaller, lookups, lstarted, NotRemove>>

\* removeLedger after its await: clearCacheForLedger(id), and it returns
removeLedgerAnswered ==
  /\ removal = "await"
  /\ removal' = "returned"
  /\ lcache' = FALSE
  /\ UNCHANGED <<lcaller, ledgerRows, lookups, lstarted, NotRemove>>

\* lookups of a ledger beside its removal and the expiry of its cache entry
RemoveNext ==
  \/ \E c \in Callers : forLedgerId(c)
  \/ \E c \in Callers : runLedgerForId(c)
  \/ \E c \in Callers : ledgerForIdAnswered(c)
  \/ removeLedger
  \/ removeLedgerAnswered
  \/ clearCacheForLedger

(***************************************************************************)
(* asyncify.ts: one iterator made from a listener provider.  A pull is the *)
(* resolver of the promise next() returned; pulls are numbered in call     *)
(* order, messages in push order.                                          *)
(***************************************************************************)
MaxPush == 3
MaxPull == 3

\* how the provider call ends: it throws, or returns a promise
ProviderKinds == {"throws", "promise"}
\* options.onError: defaultOnError rethrows, a given one returns
OnErrors == {"default", "given"}

NotCreated ==
  [pc |-> "none", buffering |-> FALSE, onError |-> "", listening |-> FALSE,
   listener |-> FALSE, pullQueue |-> <<>>, pushQueue |-> <<>>, closed |-> 0]

\* the promise of a pull: pending, or settled with {value, done} or an error
Pending == [state |-> "pending", value |-> 0, afterFailure |-> FALSE]
Resolved(pull, v) == [pull EXCEPT !.state = "value", !.value = v]
ResolvedDone(pull) == [pull EXCEPT !.state = "done"]
Rejected(pull) == [pull EXCEPT !.state = "error"]

AsyncStart ==
  /\ iterator = NotCreated
  /\ providerPc = "none"
  /\ pullResults = <<>>
  /\ pushLog = <<>>

NotAsync ==
  <<coreVars, shutdownVars, authVars, etagVars, codecVars, tenantVars,
    removeVars, moreVars>>

\* asyncify(provider, options): the closure, the provider call, and the
\* catch clause
asyncify(kind, buffering, onError) ==
  /\ iterator.pc = "none"
  /\ IF kind = "promise"
     THEN /\ iterator' = [NotCreated EXCEPT !.pc = "iterable",
                                            !.buffering = buffering,
                                            !.onError = onError,
                                            !.listening = TRUE]
          /\ providerPc' = "pending"
     ELSE /\ iterator' = [NotCreated EXCEPT !.pc = IF onError = "default"
                                                   THEN "thrown" ELSE "failed",
                                            !.buffering = buffering,
                                            !.onError = onError]
          /\ providerPc' = "threw"
  /\ UNCHANGED <<pullResults, pushLog, NotAsync>>

\* .then(l => { listener = l })
providerResolved ==
  /\ providerPc = "pending"
  /\ providerPc' = "resolved"
  /\ iterator' = [iterator EXCEPT !.listener = TRUE]
  /\ UNCHANGED <<pullResults, pushLog, NotAsync>>

\* .catch(err => { onError(err) }): defaultOnError throws inside the
\* handler, which rejects the promise .catch returned, and nobody holds it
providerRejected ==
  /\ providerPc = "pending"
  /\ providerPc' = IF iterator.onError = "default"
                   THEN "unhandled rejection" ELSE "rejected"
  /\ UNCHANGED <<iterator, pullResults, pushLog, NotAsync>>

ProviderFailed == providerPc \in {"unhandled rejection", "rejected"}

\* a pull queue that hands the value to its newest resolver
iterPushValue_Newest(it, results, v) ==
  IF Len(it.pullQueue) > 0
  THEN LET resolve == it.pullQueue[Len(it.pullQueue)]
       IN <<[it EXCEPT !.pullQueue = SubSeq(@, 1, Len(@) - 1)],
            [results EXCEPT ![resolve] = Resolved(@, v)]>>
  ELSE IF it.buffering
  THEN <<[it EXCEPT !.pushQueue = Append(@, v)], results>>
  ELSE <<it, results>>

\* pushValue: the oldest waiting resolver gets the value; with none waiting
\* the value is buffered, or dropped when buffering is off
iterPushValue(it, results, v) ==
  IF Len(it.pullQueue) > 0
  THEN LET resolve == Head(it.pullQueue)
       IN <<[it EXCEPT !.pullQueue = Tail(@)],
            [results EXCEPT ![resolve] = Resolved(@, v)]>>
  ELSE IF it.buffering
  THEN <<[it EXCEPT !.pushQueue = Append(@, v)], results>>
  ELSE <<it, results>>

\* pullValue: a new promise, resolved with the oldest buffered value or
\* left with its resolver in the pull queue
iterPullValue(it, results) ==
  LET pull == Len(results) + 1
      promise == [Pending EXCEPT !.afterFailure = ProviderFailed]
  IN IF Len(it.pushQueue) > 0
     THEN <<[it EXCEPT !.pushQueue = Tail(@)],
            Append(results, Resolved(promise, Head(it.pushQueue)))>>
     ELSE <<[it EXCEPT !.pullQueue = Append(@, pull)],
            Append(results, promise)>>

\* emptyQueue: once, the waiting pulls end with done, both queues are
\* dropped and onClose is called
iterEmptyQueue(it, results) ==
  IF it.listening
  THEN <<[it EXCEPT !.listening = FALSE, !.pullQueue = <<>>,
                    !.pushQueue = <<>>, !.closed = @ + 1],
         [k \in 1..Len(results) |->
            IF k \in ListAsSet(it.pullQueue) THEN ResolvedDone(results[k])
            ELSE results[k]]>>
  ELSE <<it, results>>

\* the provider's source calls push(message); messages are numbered
push ==
  /\ iterator.pc = "iterable"
  /\ Len(pushLog) < MaxPush
  /\ Len(iterator.pushQueue) < MaxPush
  /\ LET v == Len(pushLog) + 1
         after == iterPushValue(iterator, pullResults, v)
     IN /\ iterator' = after[1]
        /\ pullResults' = after[2]
        /\ pushLog' = IF iterator.listening THEN Append(pushLog, v) ELSE pushLog
  /\ UNCHANGED <<providerPc, NotAsync>>

\* next(): pullValue while listening, return() afterwards; the iterator of
\* the catch clause rejects
iteratorNext ==
  /\ iterator.pc \in {"iterable", "failed"}
  /\ Len(pullResults) < MaxPull
  /\ IF iterator.pc = "failed"
     THEN /\ pullResults' = Append(pullResults, Rejected(Pending))
          /\ UNCHANGED iterator
     ELSE IF iterator.listening
     THEN LET after == iterPullValue(iterator, pullResults)
          IN /\ iterator' = after[1]
             /\ pullResults' = after[2]
     ELSE /\ pullResults' = Append(pullResults,
                              ResolvedDone([Pending EXCEPT
                                              !.afterFailure = ProviderFailed]))
          /\ UNCHANGED iterator
  /\ UNCHANGED <<providerPc, pushLog, NotAsync>>

\* return() and throw(): emptyQueue
iteratorReturn ==
  /\ iterator.pc = "iterable"
  /\ LET after == iterEmptyQueue(iterator, pullResults)
     IN /\ iterator' = after[1]
        /\ pullResults' = after[2]
  /\ UNCHANGED <<providerPc, pushLog, NotAsync>>

AsyncNext ==
  \/ \E kind \in ProviderKinds, buffering \in BOOLEAN, onError \in OnErrors :
       asyncify(kind, buffering, onError)
  \/ providerResolved
  \/ providerRejected
  \/ push
  \/ iteratorNext
  \/ iteratorReturn

(***************************************************************************)
(* ledgers: resetLedger beside registry reads and appends.                 *)
(***************************************************************************)
MaxResets == 1

ResetStart == resets = 0

\* the groups of restVars but moreVars
oldVars ==
  <<shutdownVars, authVars, etagVars, codecVars, tenantVars, removeVars,
    asyncVars>>

\* evently.reset_ledger_events: the rows later than the timestamp are gone,
\* the markers of the registry among them
reset_ledger_events(rows, after) == SubSeq(rows, 1, after)

\* resetEvents: to genesis (after = 0) or to an event of the ledger; the
\* call returns when the database has answered
resetEvents(after) ==
  /\ resets < MaxResets
  /\ after <= Len(ledger)
  /\ ledger' = reset_ledger_events(ledger, after)
  /\ resets' = resets + 1
  /\ UNCHANGED <<matchVars, selectVars, foldVars, appendVars, notifyVars,
                 cacheVars, oldVars, failVars, sqlVars, sourceVars,
                 ndjsonVars>>

\* the append of an event of type a under one key
ResetInputs ==
  {AppendInput([event |-> "a", entities |-> ("x" :> {"1"}), meta |-> Obj(1),
                data |-> Obj(1)], "k1", FALSE, 0)}

\* registry reads and appends on a ledger that is reset
ResetNext ==
  \/ \E r \in Readers : cachedAllEvents(r)
  \/ QueryRead
  \/ ResolveRead
  \/ ExpireCache
  \/ \E t \in Tasks : appendEvent(t, ResetInputs)
  \/ \E t \in Tasks : tryAppendResult(t)
  \/ \E t \in Tasks : IdempotentLookup(t)
  \/ \E after \in 0..Len(RegisteredLedger) : resetEvents(after)

(***************************************************************************)
(* registry: a read of reduceAllEvents that fails.  The LRU entry is the   *)
(* promise cachedAllEvents stored, whatever becomes of it.                 *)
(***************************************************************************)
FailStart == failedReads = {}

InternalServerError == "500"

\* the database read behind reduceAllEvents fails: the promise is rejected,
\* and so is every registry read and every append awaiting it
RejectRead ==
  \E p \in 1..Len(reads) :
    /\ ~reads[p].resolved
    /\ reads' = [reads EXCEPT ![p] =
                   [@ EXCEPT !.queried = TRUE, !.resolved = TRUE,
                             !.at = IF reads[p].queried THEN @ ELSE Len(ledger),
                             !.value = <<>>]]
    /\ failedReads' = failedReads \cup {p}
    /\ task' = [t \in Tasks |->
                  IF task[t].pc = "await" /\ task[t].p = p
                  THEN [task[t] EXCEPT !.pc = "done", !.status = InternalServerError]
                  ELSE task[t]]
    /\ reader' = [r \in DOMAIN reader |->
                    IF reader[r].pc = "await" /\ reader[r].p = p
                    THEN [reader[r] EXCEPT !.pc = "done", !.at = reads'[p].at]
                    ELSE reader[r]]
    /\ UNCHANGED <<ledger, cache, reg, regOps, lcache, lcaller, matchVars,
                   selectVars, foldVars, notifyVars, oldVars, resetVars, sqlVars,
                   sourceVars, ndjsonVars>>

\* registry reads whose database read may fail, beside registrations
FailNext ==
  \/ \E r \in Readers : cachedAllEvents(r)
  \/ QueryRead
  \/ ResolveRead
  \/ RejectRead
  \/ ExpireCache
  \/ registerEventType("a", <<"x">>)
  \/ AppendMarker
  \/ InvalidateCache

NotFail == <<coreVars, oldVars, resetVars, sqlVars, sourceVars, ndjsonVars>>

NotSql == <<coreVars, oldVars, resetVars, failVars, sourceVars, ndjsonVars>>

(***************************************************************************)
(* db/selector-sql: the text of the generated predicate.  The text follows *)
(* the order in which Object.entries and Object.keys enumerate the         *)
(* selector's mappings, so it is kept as the list of its parts.            *)
(***************************************************************************)
MaxPredicates == 2

SqlStart == predicates = <<>>

\* generateEntitiesQuery: one clause for each [name, keys] of Object.entries
generateEntitiesQueryText(entities) ==
  [i \in 1..Len(entities) |-> <<"entities @?", entities[i].k, entities[i].v>>]

\* generateEventsQuery: one clause for each event with a filter, in the
\* order of Object.keys, then event = ANY(justEvents) for the "$" queries
generateEventsQueryText(dataFilter) ==
  LET filtered == SelectSeq(dataFilter, LAMBDA p : p.v.query # "$")
      justEvents == SelectSeq(dataFilter, LAMBDA p : p.v.query = "$")
  IN [i \in 1..Len(filtered) |-> <<"event =", filtered[i].k, filtered[i].v>>]
     \o (IF Len(justEvents) > 0
         THEN <<<<"event = ANY", [i \in 1..Len(justEvents) |-> justEvents[i].k]>>>>
         ELSE <<>>)

\* filterSelectorToSql: the text written out
filterSelectorToSqlText(selector) ==
  (IF selector.entities.has /\ Len(selector.entities.map) > 0
     THEN <<generateEntitiesQueryText(selector.entities.map)>> ELSE <<>>)
  \o (IF selector.meta.has THEN <<<<"meta", selector.meta>>>> ELSE <<>>)
  \o (IF selector.events.has /\ Len(selector.events.map) > 0
     THEN <<generateEventsQueryText(selector.events.map)>> ELSE <<>>)

\* lookupToSelector: events = sortObject(events), the other members as sent
lookupToSelector(lookup) ==
  [lookup EXCEPT !.events = IF lookup.events.has
                            THEN Mapping(sortObject(lookup.events.map))
                            ELSE Absent]

Sent(path, selector, text) == [path |-> path, selector |-> selector, sql |-> text]

\* POST /selectors with Prefer: return=representation: lookupToSelector,
\* handleGetSelector, source.filter, runFilter
handlePostSelectorLookup(lookup) ==
  /\ Len(predicates) < MaxPredicates
  /\ predicates' = Append(predicates,
                      Sent("lookup", lookup,
                           filterSelectorToSqlText(lookupToSelector(lookup))))
  /\ UNCHANGED NotSql

\* GET /selectors/:select on a URI the service made: decodeSelector,
\* source.filter, runFilter
handleGetSelectorUri(selector) ==
  /\ Len(predicates) < MaxPredicates
  /\ predicates' = Append(predicates,
                      Sent("fetch", selector,
                           filterSelectorToSqlText(
                             decodeSelector(encodeUnknownSelector(selector)))))
  /\ UNCHANGED NotSql

\* POST /append with a selector: appendAtomicEvent, appendWithSelector,
\* unknownSelectorToSql on the selector of the body
appendWithSelector(selectorIn) ==
  /\ Len(predicates) < MaxPredicates
  /\ predicates' = Append(predicates,
                      Sent("append", selectorIn, filterSelectorToSqlText(selectorIn)))
  /\ UNCHANGED NotSql

\* filter selectors that differ in the key order of entities and of events
SqlSelectors ==
  {FilterSelectorIn(e, NoMeta, d, 0, 0) :
     e \in {Mapping(<<Pair("x", <<"1">>), Pair("y", <<"2">>)>>),
            Mapping(<<Pair("y", <<"2">>), Pair("x", <<"1">>)>>)},
     d \in {Absent,
            Mapping(<<Pair("a", JsonpathFilter("$.k", Absent)),
                      Pair("b", JsonpathFilter("$.k", Absent))>>),
            Mapping(<<Pair("b", JsonpathFilter("$.k", Absent)),
                      Pair("a", JsonpathFilter("$.k", Absent))>>)}}

SqlNext ==
  \/ \E selector \in SqlSelectors : handlePostSelectorLookup(selector)
  \/ \E selector \in SqlSelectors : handleGetSelectorUri(selector)
  \/ \E selector \in SqlSelectors : appendWithSelector(selector)

NotSource == <<coreVars, oldVars, resetVars, failVars, sqlVars, ndjsonVars>>

(***************************************************************************)
(* event-source: what all, filter and latestEventId answer when the        *)
(* selector's after is of another ledger or the database raises an error   *)
(***************************************************************************)
MaxSourceCalls == 3

SourceStart == sourceCalls = <<>>

\* what a function threw, if anything
NoError == [kind |-> "none", code |-> "", message |-> ""]
PostgresError(code, message) ==
  [kind |-> "PostgresError", code |-> code, message |-> message]
HttpError(status) == [kind |-> "HttpError", code |-> status, message |-> ""]

\* what the database call may raise: nothing, a syntax error, the AFTER not
\* found of run_selector, another error of the server, a refused
\* connection, or an error of the client library
DbErrors ==
  {NoError,
   PostgresError("42601", "syntax error"),
   PostgresError("P0001", "AFTER not found"),
   PostgresError("57014", "canceling statement"),
   [kind |-> "Error", code |-> "ECONNREFUSED", message |-> ""],
   [kind |-> "Error", code |-> "CONNECT_TIMEOUT", message |-> ""]}

NoAfter == [has |-> FALSE, ledgerId |-> ""]
AfterOf(ledgerId) == [has |-> TRUE, ledgerId |-> ledgerId]
AfterIds == {NoAfter, AfterOf(LedgerId), AfterOf(OtherLedgerId)}

\* a validation that never throws
validateAfterInLedger_Never(after, ledgerId) == FALSE

\* validateAfterInLedger: TRUE when it throws BadRequest
validateAfterInLedger(after, ledgerId) == after.has /\ ledgerId # after.ledgerId

\* tryExecuteSelector: the catch block around run_selector
tryExecuteSelector(raised) ==
  IF raised.kind = "PostgresError" /\ raised.code = "42601" THEN HttpError("400")
  ELSE IF raised.kind = "PostgresError" /\ raised.message = "AFTER not found"
  THEN HttpError("400")
  ELSE raised

\* executeSelector up to the first batch: what it throws and how many
\* database calls it made
executeSelectorOutcome(after, raised) ==
  IF validateAfterInLedger(after, LedgerId)
  THEN [thrown |-> HttpError("400"), dbCalls |-> 0]
  ELSE [thrown |-> tryExecuteSelector(raised), dbCalls |-> 1]

\* latestEventId: fetch_event_id without a catch block
latestEventIdOutcome(after, raised) ==
  IF validateAfterInLedger(after, LedgerId)
  THEN [thrown |-> HttpError("400"), dbCalls |-> 0]
  ELSE [thrown |-> raised, dbCalls |-> 1]

\* wrapWithCatch: the status the client gets
wrapWithCatch(thrown) ==
  IF thrown = NoError THEN "200"
  ELSE IF thrown.kind = "HttpError" THEN thrown.code
  ELSE IF thrown.kind = "PostgresError" \/ thrown.code = "ECONNREFUSED" THEN "503"
  ELSE "500"

Answered(op, after, raised, outcome) ==
  [op |-> op, after |-> after, raised |-> raised, dbCalls |-> outcome.dbCalls,
   status |-> wrapWithCatch(outcome.thrown)]

\* EventSource.all and EventSource.filter
sourceSelect(op, after, raised) ==
  /\ Len(sourceCalls) < MaxSourceCalls
  /\ sourceCalls' = Append(sourceCalls,
                      Answered(op, after, raised, executeSelectorOutcome(after, raised)))
  /\ UNCHANGED NotSource

\* EventSource.latestEventId
sourceLatestEventId(after, raised) ==
  /\ Len(sourceCalls) < MaxSourceCalls
  /\ sourceCalls' = Append(sourceCalls,
                      Answered("latestEventId", after, raised,
                               latestEventIdOutcome(after, raised)))
  /\ UNCHANGED NotSource

SourceNext ==
  \/ \E op \in {"all", "filter"}, after \in AfterIds, raised \in DbErrors :
       sourceSelect(op, after, raised)
  \/ \E after \in AfterIds, raised \in DbErrors : sourceLatestEventId(after, raised)

NotNdjson == <<coreVars, oldVars, resetVars, failVars, sqlVars, sourceVars>>

(***************************************************************************)
(* api/ndjson-utils: the NDJSON transform.  A string is the list of its    *)
(* characters.                                                             *)
(***************************************************************************)
MaxEntries == 4

\* readableHighWaterMark: nothing is held back, a line or two are held
\* back, everything is held back until the end
HighWaterMarks == {0, 4, 64}

\* the events written: their JSON is {} and {bb}
NdEntries == {[id |-> "a", size |-> 0], [id |-> "b", size |-> 2]}

NdjsonStart ==
  /\ ndPc = "new"
  /\ ndHwm = 0
  /\ ndWritten = <<>>
  /\ ndBuffer = <<>>
  /\ ndChunks = <<>>

\* the stringify passed in: the JSON text of an entry
stringify(entry) == <<"{">> \o [i \in 1..entry.size |-> entry.id] \o <<"}">>

\* a line that is not ended
addLine_NoNewline(buffer, entry) == buffer \o stringify(entry)

\* addLine: `${buffer}${stringify(entry)}\n`
addLine(buffer, entry) == buffer \o stringify(entry) \o <<"\n">>

\* toNdJsonTransformer: buffer = "", the transform is made and piped
toNdJsonTransformer(highWaterMark) ==
  /\ ndPc = "new"
  /\ ndPc' = "open"
  /\ ndHwm' = highWaterMark
  /\ ndBuffer' = <<>>
  /\ UNCHANGED <<ndWritten, ndChunks, NotNdjson>>

\* transform(entry, encoding, sink)
transform(entry) ==
  /\ ndPc = "open"
  /\ Len(ndWritten) < MaxEntries
  /\ ndWritten' = Append(ndWritten, entry)
  /\ LET line == addLine(ndBuffer, entry)
     IN IF Len(line) > ndHwm
        THEN /\ ndChunks' = Append(ndChunks, line)
             /\ ndBuffer' = <<>>
        ELSE /\ ndBuffer' = line
             /\ UNCHANGED ndChunks
  /\ UNCHANGED <<ndPc, ndHwm, NotNdjson>>

\* final(done): the input ended; the transform then pushes null
final ==
  /\ ndPc = "open"
  /\ ndPc' = "ended"
  /\ ndChunks' = IF Len(ndBuffer) > 0 THEN Append(ndChunks, ndBuffer) ELSE ndChunks
  /\ UNCHANGED <<ndHwm, ndWritten, ndBuffer, NotNdjson>>

\* destroy(err, done): the reply was closed before the end
destroy ==
  /\ ndPc = "open"
  /\ ndPc' = "destroyed"
  /\ UNCHANGED <<ndHwm, ndWritten, ndBuffer, ndChunks, NotNdjson>>

NdjsonNext ==
  \/ \E highWaterMark \in HighWaterMarks : toNdJsonTransformer(highWaterMark)
  \/ \E entry \in NdEntries : transform(entry)
  \/ final
  \/ destroy

RestStart ==
  /\ ShutdownStart /\ AuthStart /\ EtagStart /\ CodecStart /\ TenantStart
  /\ RemoveStart /\ AsyncStart /\ ResetStart /\ FailStart /\ SqlStart
  /\ SourceStart /\ NdjsonStart

ShutdownNext ==
  \/ pgInit
  \/ notifyInit
  \/ launch
  \/ \E closeError \in BOOLEAN : close(closeError)
  \/ \E call \in pending : settleHook(call)
  \/ awaitHook


(***************************************************************************)
(* Specifications                                                          *)
(***************************************************************************)
Init ==
  /\ MatchStart /\ SelectStart /\ DbStart /\ FoldStart /\ AppendStart
  /\ NotifyStart /\ CacheStart /\ RestStart

\* the same system once a channel is open
InitChannel ==
  /\ MatchStart /\ SelectStart /\ DbStart /\ FoldStart /\ AppendStart
  /\ ChannelStart /\ CacheStart /\ RestStart

\* the same system once a[x] and b[x] are registered
InitRegistered ==
  /\ MatchStart /\ SelectStart /\ FoldStart /\ AppendStart /\ NotifyStart
  /\ CacheStart /\ RestStart
  /\ ledger = RegisteredLedger

SpecAppend == InitRegistered /\ [][AppendNext]_vars
SpecPostAppend == InitRegistered /\ [][PostAppendNext]_vars
SpecRegistry == Init /\ [][RegistryNext]_vars
SpecNotify == InitChannel /\ [][NotifyNext]_vars
SpecSubscribe == Init /\ [][SubscribeNext]_vars
SpecLive == InitChannel /\ [][LiveNext]_vars
SpecChannels == Init /\ [][ChannelsNext]_vars
SpecCache == Init /\ [][CacheNext]_vars
SpecReserved == Init /\ [][ReservedNext]_vars
SpecShutdown == Init /\ [][ShutdownNext]_vars
SpecAuth == Init /\ [][AuthNext]_vars
SpecEtag == Init /\ [][EtagNext]_vars
SpecCodec == Init /\ [][CodecNext]_vars
SpecTenant == Init /\ [][TenantNext]_vars
SpecRemove == Init /\ [][RemoveNext]_vars
SpecAsync == Init /\ [][AsyncNext]_vars
SpecReset == InitRegistered /\ [][ResetNext]_vars
SpecFail == Init /\ [][FailNext]_vars
SpecSql == Init /\ [][SqlNext]_vars
SpecSource == Init /\ [][SourceNext]_vars
SpecNdjson == Init /\ [][NdjsonNext]_vars

SpecFold == Init /\ [][FoldNext]_vars

SpecMatch == Init /\ [][MatchNext]_vars
SpecSelect == Init /\ [][SelectNext]_vars

(***************************************************************************)
(* Claims                                                                  *)
(***************************************************************************)

\* C4: a selector with limit L > 0 yields at most L events in total, over the
\* first batch and every continuation batch.
C4_AtMostLimit ==
  sLimit > 0 => Len(sYielded) <= sLimit

\* The markers of a ledger, and the last marker naming an event type.
IsMarker(row) == row.event \in {EVENT_REGISTERED, EVENT_UNREGISTERED}
MarkerIndexes(rows, ev) ==
  {i \in 1..Len(rows) : IsMarker(rows[i]) /\ rows[i].data.event = ev}
Max(S) == CHOOSE i \in S : \A j \in S : j <= i
LastMarker(rows, ev) == rows[Max(MarkerIndexes(rows, ev))]
LastRegistered(rows) ==
  {ev \in EventNames :
     /\ MarkerIndexes(rows, ev) # {}
     /\ LastMarker(rows, ev).event = EVENT_REGISTERED}

Done(t) == task[t].pc = "done"
\* the stored form of an input: absent meta / data are stored as null
StoredContent(input) ==
  [event |-> input.event, entities |-> input.entities,
   meta |-> IF input.meta = Undefined THEN JsonNull ELSE input.meta,
   data |-> IF input.data = Undefined THEN JsonNull ELSE input.data]
\* two atomic appends with the same selector and the same after, an event
\* id of the ledger as it was when they were issued, and no common key
Contend(t1, t2) ==
  /\ t1 # t2
  /\ Done(t1) /\ Done(t2)
  /\ task[t1].input.atomic /\ task[t2].input.atomic
  /\ task[t1].input.selector = task[t2].input.selector
  /\ task[t1].input.after = task[t2].input.after
  /\ task[t1].input.after <= Len(RegisteredLedger)
  /\ \/ task[t1].input.idempotencyKey # task[t2].input.idempotencyKey
     \/ task[t1].input.idempotencyKey = NoKey
  /\ createMatcher(task[t1].input.selector, StoredContent(task[t1].input))
  /\ createMatcher(task[t2].input.selector, StoredContent(task[t2].input))

\* C1: of two atomic appends issued with the same selector S and the same
\* after A, whose events both match S and whose idempotency keys differ or
\* are absent, exactly one returns SUCCESS and the other returns RACE; never
\* do both return SUCCESS.
C1_OneSuccessOneRace ==
  \A t1, t2 \in Tasks :
    Contend(t1, t2) =>
      \/ task[t1].status = SUCCESS /\ task[t2].status = RACE
      \/ task[t1].status = RACE /\ task[t2].status = SUCCESS

\* the same input appended twice under one idempotency key
Replayed(t1, t2) ==
  /\ t1 # t2
  /\ Done(t1) /\ Done(t2)
  /\ task[t1].input = task[t2].input
  /\ task[t1].input.idempotencyKey # NoKey
  /\ task[t1].input.after <= Len(RegisteredLedger)

\* C2: appending an input twice with the same idempotency key and equal
\* (event, entities, meta, data), with or without meta and data, returns
\* SUCCESS both times with the same event id, and the ledger holds one
\* event for the key.
C2_ReplayIsIdempotent ==
  \A t1, t2 \in Tasks :
    Replayed(t1, t2) =>
      /\ task[t1].status = SUCCESS /\ task[t2].status = SUCCESS
      /\ task[t1].eventId = task[t2].eventId
      /\ Cardinality({j \in 1..Len(ledger) :
                        ledger[j].key = task[t1].input.idempotencyKey}) = 1

\* an append whose key was already stored, with other content, when its
\* append_event call ran, and which the database refused with a key
\* conflict or a race
ReusesKey(t) ==
  /\ Done(t)
  /\ task[t].input.idempotencyKey # NoKey
  /\ task[t].stored # 0
  /\ RowContent(ledger[task[t].stored]) # StoredContent(task[t].input)
  /\ task[t].signal \in {"_append_key_key", "RACE CONDITION"}

\* C3: an append that reuses an idempotency key under which the ledger
\* already stores an event with a different event name, entities, meta or
\* data fails with 422 and adds no event, whether the database signalled a
\* key conflict or a race.
C3_KeyReuseIsUnprocessable ==
  \A t \in Tasks :
    ReusesKey(t) => task[t].status = UnprocessableEntity /\ ~task[t].added

\* C3 witness: a key reuse with other content that the database refused as
\* a race, answered 422, beside one refused as a key conflict.
C3_Witness ==
  \E t \in Tasks :
    /\ ReusesKey(t)
    /\ task[t].signal = "RACE CONDITION"
    /\ task[t].status = UnprocessableEntity
    /\ Len(ledger) = Len(RegisteredLedger) + 1

\* C5: an append returns SUCCESS only if, when its append_event call
\* commits, the fold of the ledger's markers has the event type registered
\* with every entity name of the event.
C5_SuccessOnlyIfRegisteredAtCommit ==
  \A t \in Tasks :
    task[t].status = SUCCESS /\ task[t].added => task[t].validAtCommit

\* an append that got a registry from getEvent in which its event type is
\* missing or does not list one of its entities
Invalid(t) ==
  /\ task[t].pc \notin {"idle", "await"}
  /\ LET defs == {et \in ListAsSet(task[t].seen) : et.event = task[t].input.event}
     IN \/ defs = {}
        \/ \E et \in defs : \E entity \in DOMAIN task[t].input.entities :
             entity \notin ListAsSet(et.entities)

\* C6: a factual or atomic append fails with 422 without calling
\* append_event and without changing the ledger whenever the registry that
\* getEvent returned has no entry for the event name or the entry does not
\* list an entity of the event.
C6_InvalidIsRejectedBeforeAppend ==
  \A t \in Tasks :
    Invalid(t) =>
      /\ Done(t)
      /\ task[t].status = UnprocessableEntity
      /\ task[t].calls = 0
      /\ ~task[t].added

\* C6 witness: a[x] is registered and an atomic append of a with entities x
\* and y was rejected, no call made.
C6_Witness ==
  \E t \in Tasks :
    /\ Invalid(t)
    /\ task[t].input.atomic
    /\ task[t].seen = <<[event |-> "a", entities |-> <<"x">>]>>
    /\ DOMAIN task[t].input.entities = {"x", "y"}
    /\ task[t].status = UnprocessableEntity
    /\ task[t].calls = 0

\* the messages a stream is due: one per delivery made while its listener
\* was registered and some subscription of that moment matched
RECURSIVE Due(_, _)
Due(ds, s) ==
  IF Len(ds) = 0 THEN <<>>
  ELSE LET d == Head(ds)
           ids == SelectSeq(d.filters,
                            LAMBDA f : createMatcher(MatcherSelector(f.selector), d.event))
       IN (IF s \in d.listeners /\ Len(ids) > 0
           THEN <<[retry |-> SSE_RETRY, event |-> "Subscriptions Triggered",
                   id |-> d.event.eventId,
                   data |-> Join([i \in 1..Len(ids) |-> ids[i].id])]>>
           ELSE <<>>)
          \o Due(Tail(ds), s)

\* C8: for each event the adapter delivers, each open SSE stream receives
\* exactly one message when at least one current subscription matches, with
\* id the event id, event "Subscriptions Triggered" and data the matching
\* subscription ids joined by commas, and no message when none matches.
C8_OneMessagePerMatchingEvent ==
  \A s \in Streams :
    /\ pushed[s] = Due(deliveries, s)
    /\ stream[s].listening => stream[s].sent \o stream[s].pushQueue = pushed[s]

\* C8 witness: an event matched by two subscriptions was delivered to two
\* open streams, and a delivery that matched nothing left no message.
C8_Witness ==
  /\ \A s \in Streams : stream[s].listening
  /\ \E i \in 1..Len(deliveries) :
       /\ deliveries[i].listeners = Streams
       /\ \A s \in Streams : \E j \in 1..Len(pushed[s]) :
            pushed[s][j].id = deliveries[i].event.eventId
            /\ pushed[s][j].data = "s1,s2"
  /\ \E i \in 1..Len(deliveries) :
       /\ deliveries[i].listeners = Streams
       /\ \A s \in Streams : \A j \in 1..Len(pushed[s]) :
            pushed[s][j].id # deliveries[i].event.eventId

\* C9: every listener hears the events of any two notifications in the
\* order the notifications arrived, also when the first had to fetch its
\* meta / data.
C9_ArrivalOrder ==
  \A i, j \in 1..Len(deliveries) :
    (i < j /\ deliveries[i].listeners \cap deliveries[j].listeners # {})
      => deliveries[i].event.eventId < deliveries[j].event.eventId

\* C7: for every filter selector with one, two or three clauses and every
\* persisted event, the in-process matcher accepts the event exactly when the
\* SQL predicate generated from the selector matches it.
C7_MatcherAgreesWithSql ==
  mPc = "evaluated" => (mMatched <=> mSqlMatched)

\* C11: once a register or unregister call that appended a marker has
\* returned, a registry read started afterwards gets a registry computed on
\* a ledger that holds the marker, and no cache entry computed before the
\* marker is left; what a read returns is the fold of the rows it was
\* computed on.
C11_ReadsReflectReturnedMarkers ==
  /\ \A r \in Readers :
       reader[r].pc = "done" =>
         /\ reader[r].at >= reader[r].after
         /\ reader[r].value = reduceAllEvents(SubSeq(ledger, 1, reader[r].at))
  /\ cache # 0 /\ reads[cache].queried => reads[cache].at >= ReturnedRows

\* a read that started after a marker's call returned and got the registry
\* with it, while an entry computed before that marker had been cached
C11_Witness ==
  \E r \in Readers :
    /\ reader[r].pc = "done"
    /\ reader[r].after > 0
    /\ \E p \in 1..Len(reads) :
         reads[p].queried /\ reads[p].at < reader[r].after /\ ~reads[p].live

\* The registry lists the event with the same set of entity names.
SameSet(events, event, entities) ==
  \E i \in 1..Len(events) :
    /\ events[i].event = event
    /\ ListAsSet(events[i].entities) = ListAsSet(entities)

\* C12: registerEventType appends no marker when the name is registered with
\* the same set of entity names, and appends a marker in every other case.
C12_MarkerUnlessSameSet ==
  [][\A entities \in EntityLists2 :
       registerEventType("a", entities) =>
         (reg'.pc = "append"
            <=> ~SameSet(reduceAllEvents(ledger), "a", entities))]_vars

\* The append of task t names the reserved entity.
NamesLedger(t) == LEDGER \in DOMAIN task[t].input.entities

\* C13: a registration listing the reserved name appends no marker, no
\* registry entry lists the reserved name, and no append naming a reserved
\* entity passes validation.
C13_ReservedNameIsForbidden ==
  /\ reg.pc \in {"append", "invalidate"} => LEDGER \notin ListAsSet(reg.entities)
  /\ \A et \in ListAsSet(reduceAllEvents(ledger)) :
       LEDGER \notin ListAsSet(et.entities)
  /\ \A t \in Tasks :
       NamesLedger(t) /\ task[t].pc \in {"append", "lookup", "done"} =>
         task[t].pc = "done" /\ task[t].status = UnprocessableEntity

\* a registration was refused and an append naming the reserved entity was
\* rejected although its event name is registered
C13_Witness ==
  /\ reg.result = "Forbidden"
  /\ \E t \in Tasks :
       /\ NamesLedger(t)
       /\ task[t].status = UnprocessableEntity
       /\ \E et \in ListAsSet(task[t].seen) : et.event = task[t].input.event

\* C20: for the registry cache and the ledger cache, at most one database
\* lookup is in flight for the key until the entry is invalidated or
\* expires.
C20_SingleFlight ==
  /\ Cardinality({p \in 1..Len(reads) : reads[p].live /\ ~reads[p].resolved}) <= 1
  /\ Cardinality({c \in Callers : lcaller[c] = "lookup"}) <= 1

\* Event ids order by timestamp, then checksum.
Before(r1, r2) ==
  \/ r1.timestamp < r2.timestamp
  \/ r1.timestamp = r2.timestamp /\ r1.checksum < r2.checksum

\* C14: the events one selector stream yields, over the first batch and
\* every continuation batch, are strictly increasing by (timestamp,
\* checksum): none is yielded twice, none out of order.
C14_StrictlyIncreasing ==
  \A i \in 1..Len(sYielded) : \A j \in 1..Len(sYielded) :
    i < j => Before(sYielded[i], sYielded[j])

\* a stream that went through two continuation batches
C14_Witness ==
  /\ sPc = "done"
  /\ sFetches >= 2
  /\ Len(sYielded) > 2 * EVENT_BATCH_SIZE

\* The canonical form of a selector: its limit dropped and the keys of its
\* mappings sorted.
canonicalize(selector) ==
  [entities |-> [has |-> selector.entities.has,
                 map |-> sortObject(selector.entities.map)],
   meta |-> [has |-> selector.meta.has, query |-> selector.meta.query,
             vars |-> [has |-> selector.meta.vars.has,
                       map |-> sortObject(selector.meta.vars.map)]]]

\* C15: on a channel, a subscribe returns the id of a filter it already holds
\* exactly when the two selectors have the same canonical form once the
\* limit is dropped, and then it adds no filter.
C15_SameIdIffSameCanonicalForm ==
  [][\A c \in ChannelIds : \A selector \in SubscribeSelectors :
       c \in channels /\ handleSubscribe(c, selector) =>
         \A i \in 1..Len(filters) :
           filters[i].channel = c =>
             /\ reply'.value = filters[i].id
                  <=> canonicalize(filters[i].selector) = canonicalize(selector)
             /\ canonicalize(filters[i].selector) = canonicalize(selector)
                  => filters' = filters]_vars

\* C16: openEventStream with a Last-Event-Id value on an open channel fails
\* with 400 and creates no stream and registers no listener.
C16_LastEventIdIsRejected ==
  [][\A c \in ChannelIds : \A s \in Streams :
       \A after \in LastEventIds \ {NoLastEventId} :
         c \in channels /\ openEventStream(c, s, after) =>
           /\ reply'.status = "400"
           /\ UNCHANGED <<stream, listeners>>]_vars

\* The streams that were opened on channel c.
StreamsOf(c) == {s \in Streams : stream[s].opened /\ stream[s].channel = c}

\* A call of the Channels interface on channel c, other than open and exists.
ChannelCall(c) ==
  \/ handleSubscribe(c, ChannelsSelector)
  \/ handleUnsubscribe(c, SubscriptionId(1))
  \/ getSubscriptions(c)
  \/ getSubscription(c, SubscriptionId(1))
  \/ \E s \in Streams, after \in LastEventIds : openEventStream(c, s, after)
  \/ handleCloseChannel(c)

\* C18: once close has run on a channel, the channel is gone (exists says
\* false and every other call on its id fails with 404 and changes nothing),
\* no stream opened on it listens or has a pull waiting, the pulls that
\* waited were resolved with done = true, and so is every later pull.
C18_ClosedChannelIsGone ==
  /\ [](\A s \in Streams :
          stream[s].opened /\ stream[s].channel \notin channels =>
            ~stream[s].listening /\ stream[s].pullQueue = 0)
  /\ [][\A c \in ChannelIds :
          c \in channels /\ handleCloseChannel(c) =>
            /\ c \notin channels'
            /\ \A s \in StreamsOf(c) :
                 stream[s].pullQueue > 0 => stream'[s].done]_vars
  /\ [][\A c \in ChannelIds \ channels :
          /\ handleChannelExists(c) => reply'.value = "false"
          /\ ChannelCall(c) =>
               /\ reply'.status = "404"
               /\ UNCHANGED <<channels, filters, stream, listeners>>]_vars
  /\ [][\A s \in Streams :
          stream[s].channel \notin channels /\ StreamNextEnded(s) =>
            stream'[s].done]_vars

\* a channel was closed with a pull waiting on one of its streams, and a
\* later call on its id was answered 404
C18_Witness ==
  /\ nextChannel > 1
  /\ ChannelId(1) \notin channels
  /\ reply = NotFound
  /\ \E s \in Streams :
       stream[s].opened /\ stream[s].done /\ stream[s].closed = 1

\* C19: a terminated stream has run its onClose hook exactly once, its
\* listener is not registered with the adapter, and nothing is pushed into
\* it.
C19_TerminatedIsUnregistered ==
  \A s \in Streams :
    stream[s].opened /\ ~stream[s].listening =>
      /\ stream[s].closed = 1
      /\ s \notin ListAsSet(listeners)
      /\ stream[s].pushQueue = <<>>

\* C17: an atomic append that ends with status RACE is answered 409 with a
\* JSON body that holds message and current, the selector URI.
C17_RaceIsAnswered409WithCurrent ==
  \A t \in Tasks :
    task[t].pc = "replied" /\ task[t].input.atomic /\ task[t].status = RACE =>
      /\ task[t].http.status = 409
      /\ task[t].http.body.type = "json"
      /\ task[t].http.body.message # NoText
      /\ task[t].http.body.current = toSelectorUri(task[t].input.selector)

\* the calls of hooks made so far, as positions in hookLog
HookCalls == {p \in 1..Len(hookLog) : hookLog[p].at = "start"}

\* the position of a registered hook in the hooks array
HookIndex(name) == CHOOSE i \in 1..Len(hooks) : hooks[i].name = name

\* C21: at shutdown the registered hooks run in LIFO registration order, the
\* last registered first, and each hook has finished before the next one
\* starts.
C21_HooksRunLifo ==
  \A p, q \in HookCalls :
    p < q =>
      /\ HookIndex(hookLog[p].name) < HookIndex(hookLog[q].name)
      /\ \E e \in (p + 1)..(q - 1) : hookLog[e] = Ended(hookLog[p].name, p)

\* C22: with the hooks initAll registers, the unlisten hook of the database
\* listener has run before the hook that closes the HTTP server starts.
C22_UnlistenBeforeServerClose ==
  \A q \in HookCalls :
    hookLog[q].name = REST_HOOK =>
      \E p \in 1..(q - 1) : hookLog[p].at = "end" /\ hookLog[p].name = LISTENER_HOOK

\* the token is valid and none of its roles grants the endpoint's permission
Denied(r) ==
  /\ r.token = "valid"
  /\ \A i \in 1..Len(r.roles) : ~can(r.roles[i], r.permission)

\* C23: a request with a valid Bearer token none of whose roles grants the
\* endpoint's permission is answered 403 Forbidden, and the endpoint handler
\* does not run.
C23_DeniedIs403 ==
  (req.pc = "replied" /\ Denied(req)) => (req.status = 403 /\ ~req.handled)

ByKey(map) ==
  LET Rank(key) == CHOOSE n \in 1..Len(SortedKeys) : SortedKeys[n] = key
      Place(i) == Cardinality({j \in 1..Len(map) : Rank(map[j].k) <= Rank(map[i].k)})
  IN [n \in 1..Len(map) |-> map[CHOOSE i \in 1..Len(map) : Place(i) = n]]

SortedVars(variables) == [variables EXCEPT !.map = ByKey(@)]

\* The canonical form of a selector: the same clauses, after and limit, with
\* the keys of entities, meta.vars, events and the events' vars sorted.
Canonical(selector) ==
  [selector EXCEPT
     !.entities.map = ByKey(@),
     !.meta.vars = SortedVars(@),
     !.events.map =
        ByKey([i \in 1..Len(@) |->
          Pair(@[i].k, [@[i].v EXCEPT !.vars = SortedVars(@)])])]

\* an empty mapping read as an absent one
NonEmpty(member) == IF member.map = <<>> THEN Absent ELSE member

\* the selector with its empty containers (entities, meta.vars, events and
\* the events' vars) left out
OmitEmpty(selector) ==
  [selector EXCEPT
     !.entities = NonEmpty(@),
     !.meta.vars = NonEmpty(@),
     !.events =
        NonEmpty([@ EXCEPT !.map =
          [i \in 1..Len(@) |->
             Pair(@[i].k, [@[i].v EXCEPT !.vars = NonEmpty(@)])]])]

\* C25 as stated: decoding the token of a selector gives the selector's
\* canonical form (same clauses, after and limit, keys sorted), and selectors
\* that differ only in the order of their keys have the same token.
C25_DecodeOfEncodeIsCanonical ==
  /\ \A i \in 1..Len(codec) : codec[i].decoded = Canonical(codec[i].selector)
  /\ \A i, j \in 1..Len(codec) :
       Canonical(codec[i].selector) = Canonical(codec[j].selector)
         => codec[i].token = codec[j].token

\* what the round trip does give: the canonical form of the selector with its
\* empty containers left out; key order never changes the token
DecodeOfEncodeOmitsEmpty ==
  /\ \A i \in 1..Len(codec) :
       codec[i].decoded = Canonical(OmitEmpty(codec[i].selector))
  /\ \A i, j \in 1..Len(codec) :
       Canonical(codec[i].selector) = Canonical(codec[j].selector)
         => codec[i].token = codec[j].token

\* two selectors with entities, meta vars and events in different key order
\* were encoded, and their canonical forms are the same
KeyOrderOnly ==
  /\ Len(codec) = 2
  /\ codec[1].selector # codec[2].selector
  /\ Canonical(codec[1].selector) = Canonical(codec[2].selector)
  /\ codec[1].selector.entities.map # codec[2].selector.entities.map
  /\ codec[1].selector.meta.vars.map # codec[2].selector.meta.vars.map
  /\ codec[1].selector.events.map # codec[2].selector.events.map
  /\ codec[1].decoded = codec[2].decoded

\* the ledger a channel was opened for, and the ledger of the event an SSE
\* message reports (the message's id is the event's id)
LedgerOfChannel(c) == (CHOOSE key \in channelKeys : key[2] = c)[1]
LedgerOfMessage(message) == notified[message.id]

\* C26: every message pushed to a stream of a channel reports an event of
\* the ledger the channel was opened for.
C26_OnlyOwnLedger ==
  \A s \in Streams : \A i \in 1..Len(pushed[s]) :
    LedgerOfMessage(pushed[s][i]) = LedgerOfChannel(stream[s].channel)

\* C27: an append whose input carries no idempotencyKey and whose
\* append_event call signals RACE CONDITION never reaches the lookup of
\* find_with_append_key, and ends as RACE whatever the ledger holds.
C27_RaceWithoutKeyStaysRace ==
  \A t \in Tasks :
    (task[t].input.idempotencyKey = NoKey /\ task[t].signal = "RACE CONDITION")
      => /\ task[t].pc # "lookup"
         /\ Done(t) => task[t].status = RACE

\* C28: once removeLedger has returned, a forLedgerId started afterwards
\* returns absent, and the cache does not hold the removed ledger, however
\* the removal interleaved with lookups in flight.
C28_RemovedLedgerIsGone ==
  /\ \A c \in Callers :
       (lstarted[c] /\ lcaller[c] \in {"hit", "miss", "absent"})
         => lcaller[c] = "absent"
  /\ removal = "returned" => ~lcache

\* the smaller of two numbers
Least(a, b) == IF a < b THEN a ELSE b

\* C29: while the iterator listens with buffering on, the k-th next() has
\* received the k-th pushed message for every k up to the number of pushes,
\* later pulls wait in call order, and the messages not yet pulled are
\* buffered in push order: nothing is lost, duplicated or reordered.
C29_PushPullFifo ==
  (iterator.pc = "iterable" /\ iterator.listening /\ iterator.buffering) =>
    LET pulls == Len(pullResults)
        pushes == Len(pushLog)
    IN /\ \A k \in 1..Least(pulls, pushes) :
            pullResults[k].state = "value" /\ pullResults[k].value = pushLog[k]
       /\ \A k \in (pushes + 1)..pulls : pullResults[k].state = "pending"
       /\ iterator.pullQueue = [i \in 1..(pulls - Least(pulls, pushes)) |-> pushes + i]
       /\ iterator.pushQueue = [i \in 1..(pushes - Least(pulls, pushes)) |-> pushLog[pulls + i]]

\* two messages were pushed and received by the first two pulls, and the
\* third pull waits for the next message
C29_Witness ==
  /\ iterator.listening /\ iterator.buffering
  /\ Len(pushLog) = 2 /\ Len(pullResults) = 3
  /\ pullResults[1].value = 1 /\ pullResults[2].value = 2
  /\ iterator.pullQueue = <<3>>

\* C30: when the provider's promise has rejected, a next() called afterwards
\* is rejected with the error.
C30_InitFailureSurfaces ==
  \A k \in 1..Len(pullResults) :
    pullResults[k].afterFailure => pullResults[k].state = "error"

\* C31: a finished stream of an unbounded selector has yielded every
\* matching row of the ledger exactly once, in the ledger's order, also when
\* rows at a batch boundary share a timestamp.
C31_YieldsEveryMatchOnce ==
  (sPc = "done" /\ sLimit = 0) => sYielded = sRows

\* C32: once resetLedger has returned, a registry read that is answered and
\* an append that is validated work with the fold of the markers the ledger
\* still holds.
C32_ReadsReflectReset ==
  [][resets > 0 =>
       /\ \A r \in Readers :
            (reader[r].pc = "idle" /\ reader'[r].pc = "done")
              => reader'[r].value = reduceAllEvents(ledger')
       /\ \A t \in Tasks :
            (task[t].pc = "idle" /\ task'[t].pc \in {"append", "done"})
              => task'[t].seen = reduceAllEvents(ledger')]_vars

\* C33: a registry read never takes a promise that was rejected before the
\* read started: after a failed database read the next registry read
\* performs a new one.
C33_FailureIsNotCached ==
  [][\A r \in Readers :
       (reader[r].pc = "idle" /\ reader'[r].pc # "idle")
         => reader'[r].p \notin failedReads]_vars

\* the subscription ids handed out so far, those of the channel's filters,
\* and those that were unsubscribed
IssuedIds == {SubscriptionId(n) : n \in 1..(nextSub - 1)}
CurrentIds == {f.id : f \in ListAsSet(ChannelFilters(filters, ChannelId(1)))}
Gone == IssuedIds \ CurrentIds

\* a comma-separated list of subscription ids names the id
IdOrders ==
  {q \in UNION {[1..n -> SubscriptionIds] : n \in 1..MaxSubs} :
     \A i, j \in DOMAIN q : i # j => q[i] # q[j]}
Lists(data, id) == \E q \in IdOrders : Join(q) = data /\ id \in ListAsSet(q)

\* C34: subscription changes made after an SSE stream was opened apply to
\* that stream.  An unsubscribed id never comes back; when an event reaches
\* the listeners, the message of every stream lists no unsubscribed id and
\* lists every current subscription that matches the event, whenever it was
\* subscribed; and no reply of the Channels interface lists an unsubscribed
\* id.
C34_ChangesApplyToOpenStreams ==
  [][/\ Gone \subseteq Gone'
     /\ \A id \in Gone' : ~Lists(reply'.value, id)
     /\ Len(deliveries') > Len(deliveries) =>
          LET d == Last(deliveries')
          IN \A s \in d.listeners :
               LET data == IF Len(pushed'[s]) > Len(pushed[s])
                           THEN Last(pushed'[s]).data ELSE ""
               IN /\ \A id \in Gone : ~Lists(data, id)
                  /\ \A f \in ListAsSet(ChannelFilters(filters, stream[s].channel)) :
                       createMatcher(MatcherSelector(f.selector), d.event)
                         => Lists(data, f.id)]_vars

\* C34 witness: a stream that got a message listing s1 alone got, after s1
\* was unsubscribed and s2 subscribed, a message listing s2 alone, and the
\* subscriptions were listed as s2.
C34_Witness ==
  /\ Gone = {"s1"} /\ CurrentIds = {"s2"}
  /\ reply = Reply("200", "s2")
  /\ \E s \in Streams :
       /\ stream[s].listening
       /\ Len(pushed[s]) = 2
       /\ pushed[s][1].data = "s1" /\ pushed[s][2].data = "s2"

\* C35: for every plain selector the predicate sent to the database is the
\* SQL literal true, in all (GET, run_selector) and in latestEventId (HEAD,
\* fetch_event_id).
C35_PlainSelectorIsTrue ==
  \A method \in {"HEAD", "GET"} :
    (sel[method].done /\ ~isFilterSelector(sel[method].selector.selector))
      => sel[method].sql = SqlLiteral("true")

\* two selectors with the same members up to the order of the keys of
\* entities and of events
SameUpToKeyOrder(s1, s2) ==
  /\ s1.entities.has = s2.entities.has
  /\ ListAsSet(s1.entities.map) = ListAsSet(s2.entities.map)
  /\ s1.meta = s2.meta
  /\ s1.events.has = s2.events.has
  /\ ListAsSet(s1.events.map) = ListAsSet(s2.events.map)

\* C36: two filter selectors that are equal up to the key order of their
\* entities and events mappings send byte-identical predicates to the
\* database, on the selector fetch, the lookup with inline representation
\* and the atomic append.
C36_PredicateIsCanonical ==
  \A i, j \in DOMAIN predicates :
    SameUpToKeyOrder(predicates[i].selector, predicates[j].selector)
      => predicates[i].sql = predicates[j].sql

\* C37: a database error raised while the event source executes a
\* selector (all, filter) that is neither a syntax error (42601) nor AFTER
\* not found reaches the client as 500.
C37_DatabaseErrorIs500 ==
  \A i \in DOMAIN sourceCalls :
    LET call == sourceCalls[i]
    IN ( /\ call.op \in {"all", "filter"}
         /\ call.dbCalls = 1
         /\ call.raised # NoError
         /\ call.raised.code # "42601"
         /\ call.raised.message # "AFTER not found" )
       => call.status = "500"

\* C38: all, filter and latestEventId called with a selector whose
\* after.ledgerId differs from the ledger's id fail with 400 before any
\* database call is made.
C38_ForeignAfterIs400 ==
  \A i \in DOMAIN sourceCalls :
    LET call == sourceCalls[i]
    IN (call.after.has /\ call.after.ledgerId # LedgerId)
       => (call.status = "400" /\ call.dbCalls = 0)

\* C38 witness: all, filter and latestEventId were each called with an after
\* of the other ledger while the database would have raised nothing, and a
\* call with an after of this ledger went to the database.
C38_Witness ==
  /\ \A op \in {"all", "filter", "latestEventId"} :
       \E i \in DOMAIN sourceCalls :
         /\ sourceCalls[i].op = op
         /\ sourceCalls[i].after = AfterOf(OtherLedgerId)
         /\ sourceCalls[i].raised = NoError
         /\ sourceCalls[i].status = "400"
  /\ Len(sourceCalls) = MaxSourceCalls

\* C39: for an unbounded selector whose first batch holds exactly 100 events
\* while no further event matches, the event source makes exactly one
\* fetch_selected call, which returns nothing, and the stream ends after
\* exactly 100 events; a first batch of fewer than 100 events causes no
\* fetch_selected call.
C39_OneEmptyContinuation ==
  /\ (sPc # "idle" /\ sLimit = 0 /\ Len(sRows) = EVENT_BATCH_SIZE)
       => /\ Len(sYielded) = EVENT_BATCH_SIZE
          /\ sFetches <= 1
          /\ sPc = "done" <=> sFetches = 1
  /\ (sPc # "idle"
       /\ Len(run_selector(sRows, 0, 0, sLimit, EVENT_BATCH_SIZE)) < EVENT_BATCH_SIZE)
       => (sFetches = 0 /\ sPc = "done")

\* C39 witness: an unbounded selector over exactly 100 matching events has
\* ended after one continuation call.
C39_Witness ==
  /\ sPc = "done" /\ sLimit = 0
  /\ Len(sRows) = EVENT_BATCH_SIZE
  /\ sFetches = 1
  /\ Len(sYielded) = EVENT_BATCH_SIZE

\* the chunks pushed, one after the other
RECURSIVE ConcatChunks(_)
ConcatChunks(chunks) ==
  IF Len(chunks) = 0 THEN <<>> ELSE Head(chunks) \o ConcatChunks(Tail(chunks))

\* the JSON of each entry in input order, each followed by one newline
RECURSIVE JsonLines(_)
JsonLines(entries) ==
  IF Len(entries) = 0 THEN <<>>
  ELSE <<"{">> \o [i \in 1..Head(entries).size |-> Head(entries).id]
       \o <<"}", "\n">> \o JsonLines(Tail(entries))

\* C40: for every sequence of events written to the NDJSON transform and
\* every high-water mark, the chunks pushed, the final flush included,
\* concatenate to the events' JSON strings in input order, each followed by
\* one newline; while the stream is open the buffer holds what was not yet
\* pushed, and nothing stays behind when it ends.
C40_ChunksAreTheLines ==
  /\ ndPc = "open" => ConcatChunks(ndChunks) \o ndBuffer = JsonLines(ndWritten)
  /\ ndPc = "ended" => ConcatChunks(ndChunks) = JsonLines(ndWritten)

\* C40 witness: a stream of four events ended after a chunk was pushed on
\* the way and the rest was flushed at the end.
C40_Witness ==
  /\ ndPc = "ended"
  /\ ndHwm = 4
  /\ Len(ndWritten) = MaxEntries
  /\ Len(ndChunks) >= 2
  /\ Len(ndBuffer) > 0
  /\ Last(ndChunks) = ndBuffer

====
